---------------------------- MODULE Spec2Model ----------------------------
(***************************************************************************)
(* A model of the FlatCAM core (camlib.py): the Gerber parser              *)
(* (Gerber.parse_lines) and the Excellon parser (Excellon.parse_lines,     *)
(* Excellon.parse_number).                                                 *)
(*                                                                         *)
(* Text is modelled by what the regular expressions of the code read from  *)
(* it: a line is a record of the groups its pattern captures.  Identifiers *)
(* (aperture ids, tool ids, coordinate literals) are digit sequences, so   *)
(* that int() and str() are conversions and not the identity.              *)
(*                                                                         *)
(* Shapely geometry is modelled on a raster: a geometry is the set of unit *)
(* cells of the window 0..W-1 x 0..W-1 whose centre it contains.  Union    *)
(* and difference are the set operations, area is the number of cells.     *)
(* Cell centres have half-integer coordinates; all tests are made on       *)
(* doubled coordinates, which are integers.                                *)
(*                                                                         *)
(* A Python exception that leaves parse_lines is modelled by the parser    *)
(* state "raised": no further line is read.                                *)
(***************************************************************************)
EXTENDS Integers, Sequences, FiniteSets, TLC

\* ------------------------------------------------------------------ bounds

\* Side of the raster window, in cells.
W == 4
\* Longest pending path the inputs build; SquarePath for the region inputs.
MaxPath == 2
SquarePath == 5
\* Most shapes the inputs leave in poly_buffer between two polarity flushes.
MaxBuf == 1
\* Most chunks the inputs append to one aperture macro.
MaxRaw == 2
\* Most drills the inputs record.
MaxDrills == 2
\* The longest literal given to parse_number.
MaxDigits == 4
\* Most shapes in the geometry given to generate_from_geometry.
MaxShapes == 2
\* Most lines of a G-code text given to gcode_parse.
MaxLines == 3
\* Largest feed rate, in units of 10^-6, that the inputs convert to MM.
MaxFeedrate == 16000000
\* Most calls of scale, offset and mirror on the objects.
MaxTransforms == 2
\* Most rings the inputs of clear_poly make.
MaxCuts == 4
\* The longest pending path of the inputs with arcs.
MaxArcPath == 12

\* ------------------------------------------------------------ program constants

\* Gerber.__init__: self.frac_digits = 4
FracDigitsInit == 4
\* Gerber.__init__: self.int_digits = 3
IntDigitsInit == 3

\* ------------------------------------------------------------------ values

\* Python's None for an identifier (a digit sequence) and for a number.
NoneId == <<>>
None == -1
\* A group that did not take part in a match (match.group(n) is None).
NoLit == -1

RECURSIVE Pow10(_)
Pow10(n) == IF n = 0 THEN 1 ELSE 10 * Pow10(n - 1)

\* int(s) for a digit sequence s.
RECURSIVE IntOf(_)
IntOf(s) == IF s = <<>> THEN 0 ELSE 10 * IntOf(SubSeq(s, 1, Len(s) - 1)) + s[Len(s)]

\* str(n) for n >= 0, as a digit sequence.
RECURSIVE StrOf(_)
StrOf(n) == IF n < 10 THEN <<n>> ELSE Append(StrOf(n \div 10), n % 10)

Abs(n) == IF n < 0 THEN -n ELSE n
Min2(a, b) == IF a < b THEN a ELSE b

\* parse_gerber_number: int(strnumber) * 10 ** (-frac_digits).  The literal is
\* given by its integer; the inputs hold literals that are multiples of
\* 10 ** frac_digits, for which the quotient is exact.
parse_gerber_number(strnumber, fd) == strnumber \div Pow10(fd)

\* ------------------------------------------------------------------ raster

Cells == (0 .. W - 1) \X (0 .. W - 1)

\* Doubled coordinates of the centre of cell c, and of point p.
Centre(c) == <<2 * c[1] + 1, 2 * c[2] + 1>>
Dbl(p) == <<2 * p[1], 2 * p[2]>>

Dist2(a, b) == (a[1] - b[1]) * (a[1] - b[1]) + (a[2] - b[2]) * (a[2] - b[2])

\* The ray from c to the right crosses the edge a-b (all doubled).
Crosses(c, a, b) ==
    /\ (a[2] > c[2]) # (b[2] > c[2])
    /\ LET s == (a[1] - c[1]) * (b[2] - a[2]) + (c[2] - a[2]) * (b[1] - a[1])
       IN  IF b[2] > a[2] THEN s > 0 ELSE s < 0

\* Edges of the ring through the points of pts (shapely closes the ring).
RingEdges(pts) ==
    {<<pts[i], pts[(i % Len(pts)) + 1]>> : i \in 1 .. Len(pts)}

EdgeIndexes(pts) == 1 .. Len(pts)

\* c is inside the ring through pts: an odd number of crossings.
InRing(c, pts) ==
    Cardinality({i \in EdgeIndexes(pts) :
        Crosses(Centre(c), Dbl(pts[i]), Dbl(pts[(i % Len(pts)) + 1]))}) % 2 = 1

\* c is within r2/2 of the segment a-b (a, b doubled, r2 the doubled radius).
NearSegment(c, a, b, r2) ==
    LET dx == b[1] - a[1]
        dy == b[2] - a[2]
        dd == dx * dx + dy * dy
        u  == (c[1] - a[1]) * dx + (c[2] - a[2]) * dy
        cr == (c[1] - a[1]) * dy - (c[2] - a[2]) * dx
    IN  IF dd = 0 \/ u <= 0 THEN Dist2(c, a) <= r2 * r2
        ELSE IF u >= dd THEN Dist2(c, b) <= r2 * r2
        ELSE cr * cr <= r2 * r2 * dd

\* Polygon(pts): the cells inside the ring.
PolygonCells(pts) == {c \in Cells : InRing(c, pts)}

\* LineString(pts).buffer(width / 2): the cells within width/2 of the line.
StrokeCells(pts, width) ==
    {c \in Cells : \E i \in 1 .. Len(pts) - 1 :
        NearSegment(Centre(c), Dbl(pts[i]), Dbl(pts[i + 1]), width)}

\* Point(p).buffer(size / 2): the cells within size/2 of p.
DiskCells(p, size) == {c \in Cells : Dist2(Centre(c), Dbl(p)) <= size * size}

\* shply_box(x - w/2, y - h/2, x + w/2, y + h/2).
BoxCells(p, width, height) ==
    {c \in Cells : /\ Abs(Centre(c)[1] - 2 * p[1]) <= width
                   /\ Abs(Centre(c)[2] - 2 * p[2]) <= height}

\* A shapely geometry: its type and its cells.
Geo(type, cells) == [type |-> type, cells |-> cells]

\* cascaded_union of a list of geometries.
RECURSIVE cascaded_union(_)
cascaded_union(buf) ==
    IF buf = <<>> THEN {} ELSE buf[1].cells \cup cascaded_union(Tail(buf))

Area(cells) == Cardinality(cells)


\* ------------------------------------------------------------ Gerber: lines

(***************************************************************************)
(* A Gerber line, as the groups the patterns of Gerber.__init__ capture:   *)
(*   AM    %AM<name>*<prims>[%]        am1_re                              *)
(*   BODY  <prims>[%]                  a line of a macro body              *)
(*   AD    %ADD<id><name>,<params>*%   ad_re                               *)
(*   TOOL  D<id>*                      tool_re                             *)
(*   LIN   [X<x>][Y<y>][D0<d>]*        lin_re                              *)
(*   OP    D0<d>*                      opcode_re                           *)
(*   G36, G37                          regionon_re, regionoff_re           *)
(*   LP    %LP<pol>*%                  lpol_re                             *)
(*   IGN   G04 ..., M02*, or a line no pattern matches                     *)
(* pct says that the text of the line ends with "%".  A primitive of a     *)
(* macro body is the circle "1,<pol>,$<var>*".                             *)
(***************************************************************************)
Line(kind, id, name, params, x, y, d, prims, pol, pct) ==
    [kind |-> kind, id |-> id, name |-> name, params |-> params, x |-> x,
     y |-> y, d |-> d, prims |-> prims, pol |-> pol, pct |-> pct]

AMLine(name, prims, pct) == Line("AM", <<>>, name, <<>>, NoLit, NoLit, 0, prims, "", pct)
BodyLine(prims, pct) == Line("BODY", <<>>, "", <<>>, NoLit, NoLit, 0, prims, "", pct)
ADLine(id, name, params) == Line("AD", id, name, params, NoLit, NoLit, 0, <<>>, "", TRUE)
ToolLine(id) == Line("TOOL", id, "", <<>>, NoLit, NoLit, 0, <<>>, "", FALSE)
LinLine(x, y, d) == Line("LIN", <<>>, "", <<>>, x, y, d, <<>>, "", FALSE)
OpLine(d) == Line("OP", <<>>, "", <<>>, NoLit, NoLit, d, <<>>, "", FALSE)
G36Line == Line("G36", <<>>, "", <<>>, NoLit, NoLit, 0, <<>>, "", FALSE)
G37Line == Line("G37", <<>>, "", <<>>, NoLit, NoLit, 0, <<>>, "", FALSE)
LPLine(pol) == Line("LP", <<>>, "", <<>>, NoLit, NoLit, 0, <<>>, pol, TRUE)
IgnLine == Line("IGN", <<>>, "", <<>>, NoLit, NoLit, 0, <<>>, "", FALSE)

Prim(pol, var) == [pol |-> pol, var |-> var]

\* The aperture ids and macro names the inputs use, and the keys they give.
ApIds == {<<1, 0>>, <<1, 1>>}
ApKeys == {StrOf(IntOf(i)) : i \in ApIds}
MacroNames == {"CIRC"}

\* ------------------------------------------------------------ Gerber: state

VARIABLES
    gerber_pc,                 \* "parsing", "returned" or "raised"
    gerber_exc,                \* the exception that left parse_lines, or ""
    apertures,                 \* self.apertures: key -> aperture
    aperture_macros,           \* self.aperture_macros: name -> macro
    solid_geometry,            \* self.solid_geometry (cells)
    frac_digits,               \* self.frac_digits
    int_digits,                \* self.int_digits
    path,                      \* the locals of parse_lines
    poly_buffer,
    last_path_aperture,
    current_aperture,
    current_operation_code,
    current_x,
    current_y,
    current_macro,
    current_polarity,
    making_region

gerber_locals == <<path, poly_buffer, last_path_aperture, current_aperture,
                   current_operation_code, current_x, current_y, current_macro,
                   current_polarity, making_region>>
gerber_self == <<apertures, aperture_macros, solid_geometry, frac_digits, int_digits>>
gerber_vars == <<gerber_pc, gerber_exc, gerber_self, gerber_locals>>

\* A dict entry that is not there.  An AM aperture holds the ApertureMacro
\* object itself, which nothing appends to once an aperture refers to it.
NoMacro == [defined |-> FALSE, raw |-> <<>>]
Absent == [type |-> "absent", size |-> 0, width |-> 0, height |-> 0,
           macro |-> NoMacro, modifiers |-> <<>>]

\* key in self.apertures
HasAperture(key) == key \in DOMAIN apertures /\ apertures[key].type # "absent"

\* Gerber.__init__ and the first lines of parse_lines.
GerberInit ==
    /\ gerber_pc = "parsing"
    /\ gerber_exc = ""
    /\ apertures = [k \in ApKeys |-> Absent]
    /\ aperture_macros = [n \in MacroNames |-> NoMacro]
    /\ solid_geometry = {}
    /\ frac_digits = FracDigitsInit
    /\ int_digits = IntDigitsInit
    /\ path = <<>>
    /\ poly_buffer = <<>>
    /\ last_path_aperture = NoneId
    /\ current_aperture = NoneId
    /\ current_operation_code = None
    /\ current_x = None
    /\ current_y = None
    /\ current_macro = ""
    /\ current_polarity = "D"
    /\ making_region = FALSE

\* An exception leaves parse_lines: the rest of the input is not read.
Raise(exc) == gerber_pc' = "raised" /\ gerber_exc' = exc
NoRaise == UNCHANGED <<gerber_pc, gerber_exc>>

\* The loop of parse_lines reads a line outside a macro definition.
Reading == gerber_pc = "parsing" /\ current_macro = ""

\* -------------------------------------------------- Gerber: aperture macros

\* am1_re = ^%AM([^\*]+)\*(.+)?(%)?$ on an AM line.  What follows the first
\* "*" is the primitives and, with pct, a final "%".  (.+)? is greedy: it
\* takes all of it, the final "%" included, and leaves nothing for (%)?.
am1_rest(l) == [prims |-> l.prims, pct |-> l.pct]
am1_group2(l) ==
    IF Len(l.prims) > 0 \/ l.pct THEN am1_rest(l) ELSE [prims |-> <<>>, pct |-> FALSE]
am1_has_group2(l) == Len(l.prims) > 0 \/ l.pct
\* What (.+)? left of the rest: its final "%", if it did not take it.
am1_group3(l) == am1_rest(l).pct /\ ~(am1_has_group2(l) /\ am1_group2(l).pct)

\* A piece of text appended to ApertureMacro.raw: its primitives, whether it
\* is other text (a line that is not macro body), whether it ends with "%".
Chunk(prims, other, pct) == [prims |-> prims, other |-> other, pct |-> pct]

\* am2_re = (.*)%$ : group(1) is the line without its final "%".
am2_group1(l) == Chunk(l.prims, l.kind \notin {"AM", "BODY"}, FALSE)
WholeLine(l) == Chunk(l.prims, l.kind \notin {"AM", "BODY"}, l.pct)

\* ApertureMacro.parse_content: raw.split('*'), each part a comment, a
\* variable, a primitive, or unknown syntax (dropped with a warning).  A part
\* that follows a "%" or other text is glued to it and is unknown syntax.
RECURSIVE parse_content(_, _)
parse_content(raw, glued) ==
    IF raw = <<>> THEN <<>>
    ELSE LET ch == Head(raw)
             own == IF glued /\ Len(ch.prims) > 0 THEN Tail(ch.prims) ELSE ch.prims
         IN  own \o parse_content(Tail(raw), ch.pct)

\* modifiers[i - 1], or 0 for a variable that was not given ("Make all others 0").
ModValue(modifiers, var) == IF var \in 1 .. Len(modifiers) THEN modifiers[var] ELSE 0

\* ApertureMacro.make_geometry at location loc: [exc, cells].  The geometry
\* starts as None; a clear primitive met while it is None calls
\* None.difference, and a macro with no primitive returns None, which
\* affinity.translate cannot move.
RECURSIVE compose(_, _, _, _, _)
compose(prims, modifiers, loc, started, cells) ==
    IF prims = <<>>
    THEN [exc |-> IF started THEN "" ELSE "AttributeError", cells |-> cells]
    ELSE LET p == Head(prims)
             g == DiskCells(loc, ModValue(modifiers, p.var))
         IN  IF ~started /\ p.pol = 1
                 THEN compose(Tail(prims), modifiers, loc, TRUE, g)
             ELSE IF p.pol = 1
                 THEN compose(Tail(prims), modifiers, loc, TRUE, cells \cup g)
             ELSE IF ~started
                 THEN [exc |-> "AttributeError", cells |-> {}]
             ELSE compose(Tail(prims), modifiers, loc, TRUE, cells \ g)

make_geometry(macro, modifiers, loc) ==
    compose(parse_content(macro.raw, FALSE), modifiers, loc, FALSE, {})

\* Gerber.create_flash_geometry(location, aperture): [exc, geo].
create_flash_geometry(loc, aperture) ==
    IF aperture.type = "C"
        THEN [exc |-> "", geo |-> Geo("Polygon", DiskCells(loc, aperture.size))]
    ELSE IF aperture.type = "R"
        THEN [exc |-> "", geo |-> Geo("Polygon", BoxCells(loc, aperture.width, aperture.height))]
    ELSE LET m == make_geometry(aperture.macro, aperture.modifiers, loc)
         IN  [exc |-> m.exc, geo |-> Geo("Polygon", m.cells)]

\* Gerber.aperture_parse: the table entry an AD line makes, or Absent for an
\* aperture type that is not implemented.
ApertureOf(name, params) ==
    IF name = "C"
        THEN [Absent EXCEPT !.type = "C", !.size = params[1]]
    ELSE IF name = "R"
        THEN [Absent EXCEPT !.type = "R", !.width = params[1], !.height = params[2]]
    ELSE IF name \in MacroNames /\ aperture_macros[name].defined
        THEN [Absent EXCEPT !.type = "AM", !.macro = aperture_macros[name],
                            !.modifiers = params]
    ELSE Absent

\* apid = str(int(apertureId))
ApertureKey(id) == StrOf(IntOf(id))

\* ---------------------------------------------------- Gerber: parse_lines

\* self.apertures[ap]["size"] raises KeyError for a key that is not in the
\* table (None included) and for an aperture that has no "size".
StrokeExc(ap) ==
    IF ~HasAperture(ap) THEN "KeyError"
    ELSE IF apertures[ap].type # "C" THEN "KeyError"
    ELSE ""

\* LineString(path).buffer(width / 2) with the width of aperture ap.
StrokeGeo(pts, ap) == Geo("Stroke", StrokeCells(pts, apertures[ap].size))

\* Polygon(path): shapely refuses a ring of fewer than 3 points.
PolygonExc(pts) == IF Len(pts) < 3 THEN "ValueError" ELSE ""
PolygonGeo(pts) == Geo("Region", PolygonCells(pts))

\* self.apertures[current_aperture], then create_flash_geometry.
FlashExc(loc, ap) ==
    IF ~HasAperture(ap) THEN "KeyError"
    ELSE create_flash_geometry(loc, apertures[ap]).exc
FlashGeo(loc, ap) == create_flash_geometry(loc, apertures[ap]).geo

\* The geometry a D02 flushes the path as (lines 981-991).
FlushExc == IF making_region THEN PolygonExc(path) ELSE StrokeExc(last_path_aperture)
FlushGeo == IF making_region THEN PolygonGeo(path) ELSE StrokeGeo(path, last_path_aperture)

\* ### Aperture Macros, no macro started yet (lines 928-939).
MacroStart(l) ==
    /\ Reading
    /\ l.kind = "AM"
    /\ aperture_macros' =
          [aperture_macros EXCEPT ![l.name] =
              [defined |-> TRUE,
               raw |-> IF am1_has_group2(l)
                       THEN <<Chunk(am1_group2(l).prims, FALSE, am1_group2(l).pct)>>
                       ELSE <<>>]]
    /\ current_macro' = IF am1_group3(l) THEN "" ELSE l.name
    /\ NoRaise
    /\ UNCHANGED <<apertures, solid_geometry, frac_digits, int_digits, path,
                   poly_buffer, last_path_aperture, current_aperture,
                   current_operation_code, current_x, current_y,
                   current_polarity, making_region>>

\* ### Aperture Macros, continue macro (lines 940-948): any line is taken.
MacroContinue(l) ==
    /\ gerber_pc = "parsing"
    /\ current_macro # ""
    /\ aperture_macros' =
          [aperture_macros EXCEPT ![current_macro].raw =
              Append(@, IF l.pct THEN am2_group1(l) ELSE WholeLine(l))]
    /\ current_macro' = IF l.pct THEN "" ELSE current_macro
    /\ NoRaise
    /\ UNCHANGED <<apertures, solid_geometry, frac_digits, int_digits, path,
                   poly_buffer, last_path_aperture, current_aperture,
                   current_operation_code, current_x, current_y,
                   current_polarity, making_region>>

\* A variant that takes the operation code written on the line only.
LinOpWritten(l) == l.d

\* ### G01 - Linear interpolation plus flashes (lines 953-1003).
LinX(l) == IF l.x # NoLit THEN parse_gerber_number(l.x, frac_digits) ELSE current_x
LinY(l) == IF l.y # NoLit THEN parse_gerber_number(l.y, frac_digits) ELSE current_y
LinOp(l) == IF l.d # 0 THEN l.d ELSE current_operation_code

Linear(l) ==
    /\ Reading
    /\ l.kind = "LIN"
    /\ current_x' = LinX(l)
    /\ current_y' = LinY(l)
    /\ current_operation_code' = LinOp(l)
    /\ UNCHANGED <<gerber_self, current_aperture, current_macro,
                   current_polarity, making_region>>
    /\ IF LinOp(l) = 1 THEN
           /\ path' = Append(path, <<LinX(l), LinY(l)>>)
           /\ last_path_aperture' = current_aperture
           /\ NoRaise
           /\ UNCHANGED poly_buffer
       ELSE IF LinOp(l) = 2 THEN
           IF Len(path) > 1 /\ FlushExc # "" THEN
               /\ Raise(FlushExc)
               /\ UNCHANGED <<path, poly_buffer, last_path_aperture>>
           ELSE
               /\ poly_buffer' = IF Len(path) > 1
                                 THEN Append(poly_buffer, FlushGeo)
                                 ELSE poly_buffer
               /\ path' = <<<<LinX(l), LinY(l)>>>>
               /\ NoRaise
               /\ UNCHANGED last_path_aperture
       ELSE IF LinOp(l) = 3 THEN
           IF FlashExc(<<LinX(l), LinY(l)>>, current_aperture) # "" THEN
               /\ Raise(FlashExc(<<LinX(l), LinY(l)>>, current_aperture))
               /\ UNCHANGED <<path, poly_buffer, last_path_aperture>>
           ELSE
               /\ poly_buffer' = Append(poly_buffer,
                                        FlashGeo(<<LinX(l), LinY(l)>>, current_aperture))
               /\ NoRaise
               /\ UNCHANGED <<path, last_path_aperture>>
       ELSE
           /\ NoRaise
           /\ UNCHANGED <<path, poly_buffer, last_path_aperture>>

\* ### Operation code alone (lines 1091-1101).  path[-1] of an empty path
\* raises IndexError.
OpcodeAlone(l) ==
    /\ Reading
    /\ l.kind = "OP"
    /\ current_operation_code' = l.d
    /\ UNCHANGED <<gerber_self, path, last_path_aperture, current_aperture,
                   current_x, current_y, current_macro, current_polarity,
                   making_region>>
    /\ IF l.d # 3 THEN
           NoRaise /\ UNCHANGED poly_buffer
       ELSE IF path = <<>> THEN
           Raise("IndexError") /\ UNCHANGED poly_buffer
       ELSE IF FlashExc(path[Len(path)], current_aperture) # "" THEN
           Raise(FlashExc(path[Len(path)], current_aperture)) /\ UNCHANGED poly_buffer
       ELSE
           /\ poly_buffer' = Append(poly_buffer, FlashGeo(path[Len(path)], current_aperture))
           /\ NoRaise

\* ### G36* - Begin region (lines 1113-1125).
RegionOn ==
    /\ Reading
    /\ UNCHANGED <<gerber_self, last_path_aperture, current_aperture,
                   current_operation_code, current_x, current_y, current_macro,
                   current_polarity>>
    /\ IF Len(path) > 1 /\ StrokeExc(last_path_aperture) # "" THEN
           /\ Raise(StrokeExc(last_path_aperture))
           /\ UNCHANGED <<path, poly_buffer, making_region>>
       ELSE
           /\ poly_buffer' = IF Len(path) > 1
                             THEN Append(poly_buffer, StrokeGeo(path, last_path_aperture))
                             ELSE poly_buffer
           /\ path' = IF Len(path) > 1 THEN <<path[Len(path)]>> ELSE path
           /\ making_region' = TRUE
           /\ NoRaise

\* A variant that draws the outline of the region as a stroke of width 1.
RegionGeoOutline(pts) == Geo("Stroke", StrokeCells(pts, 1))

\* region = Polygon(path); if not region.is_valid: region = region.buffer(0).
\* The raster reads the ring by the even-odd rule, which buffer(0) keeps.
RegionGeo(pts) == PolygonGeo(pts)

\* ### G37* - End region (lines 1128-1153).
RegionOff ==
    /\ Reading
    /\ making_region' = FALSE
    /\ NoRaise
    /\ UNCHANGED <<gerber_self, last_path_aperture, current_aperture,
                   current_operation_code, current_x, current_y, current_macro,
                   current_polarity>>
    /\ IF Len(path) < 3 THEN
           UNCHANGED <<path, poly_buffer>>
       ELSE
           /\ poly_buffer' = Append(poly_buffer, RegionGeo(path))
           /\ path' = <<<<current_x, current_y>>>>

\* ### Aperture definitions %ADD... (lines 1156-1159) and aperture_parse.
ApertureDefinition(l) ==
    /\ Reading
    /\ l.kind = "AD"
    /\ apertures' = IF ApertureOf(l.name, l.params) = Absent
                    THEN apertures
                    ELSE [apertures EXCEPT ![ApertureKey(l.id)] = ApertureOf(l.name, l.params)]
    /\ NoRaise
    /\ UNCHANGED <<aperture_macros, solid_geometry, frac_digits, int_digits,
                   gerber_locals>>

\* ### Tool/aperture change (lines 1172-1175): the id as it is written.
ToolChange(l) ==
    /\ Reading
    /\ l.kind = "TOOL"
    /\ current_aperture' = l.id
    /\ NoRaise
    /\ UNCHANGED <<gerber_self, path, poly_buffer, last_path_aperture,
                   current_operation_code, current_x, current_y, current_macro,
                   current_polarity, making_region>>

\* A variant that unions the buffer whatever the polarity.
ApplyBufferDarkOnly(solid, buf, polarity) == solid \cup cascaded_union(buf)

\* --- Apply buffer --- (lines 1191-1195, 1252-1255)
ApplyBuffer(solid, buf, polarity) ==
    IF polarity = "D" THEN solid \cup cascaded_union(buf)
    ELSE solid \ cascaded_union(buf)

\* ### Polarity change (lines 1179-1198).
PolarityChange(l) ==
    /\ Reading
    /\ l.kind = "LP"
    /\ UNCHANGED <<apertures, aperture_macros, frac_digits, int_digits,
                   last_path_aperture, current_aperture, current_operation_code,
                   current_x, current_y, current_macro, making_region>>
    /\ LET flush == Len(path) > 1 /\ current_polarity # l.pol
       IN  IF flush /\ StrokeExc(last_path_aperture) # "" THEN
               /\ Raise(StrokeExc(last_path_aperture))
               /\ UNCHANGED <<solid_geometry, path, poly_buffer, current_polarity>>
           ELSE
               /\ solid_geometry' =
                     ApplyBuffer(solid_geometry,
                                 IF flush
                                 THEN Append(poly_buffer, StrokeGeo(path, last_path_aperture))
                                 ELSE poly_buffer,
                                 current_polarity)
               /\ path' = IF flush THEN <<path[Len(path)]>> ELSE path
               /\ poly_buffer' = <<>>
               /\ current_polarity' = l.pol
               /\ NoRaise

\* A variant in which a line that matches nothing drops the pending path.
IgnoredDropsPath(l) ==
    /\ Reading
    /\ l.kind \in {"IGN", "BODY"}
    /\ NoRaise
    /\ path' = <<>>
    /\ UNCHANGED <<gerber_self, poly_buffer, last_path_aperture, current_aperture,
                   current_operation_code, current_x, current_y, current_macro,
                   current_polarity, making_region>>

\* #### Ignored lines (lines 1229-1241): a comment, M02*, or no pattern.
Ignored(l) ==
    /\ Reading
    /\ l.kind \in {"IGN", "BODY"}
    /\ NoRaise
    /\ UNCHANGED <<gerber_self, gerber_locals>>

\* The end of the input (lines 1243-1255).
EndOfInput ==
    /\ gerber_pc = "parsing"
    /\ UNCHANGED <<apertures, aperture_macros, frac_digits, int_digits,
                   last_path_aperture, current_aperture, current_operation_code,
                   current_x, current_y, current_macro, current_polarity,
                   making_region, path>>
    /\ IF Len(path) > 1 /\ StrokeExc(last_path_aperture) # "" THEN
           /\ Raise(StrokeExc(last_path_aperture))
           /\ UNCHANGED <<solid_geometry, poly_buffer>>
       ELSE
           /\ poly_buffer' = IF Len(path) > 1
                             THEN Append(poly_buffer, StrokeGeo(path, last_path_aperture))
                             ELSE poly_buffer
           /\ solid_geometry' = ApplyBuffer(solid_geometry, poly_buffer', current_polarity)
           /\ gerber_pc' = "returned"
           /\ UNCHANGED gerber_exc

\* ---------------------------------------------------------- Excellon: lines

(***************************************************************************)
(* An Excellon line, as the groups the patterns of Excellon.__init__       *)
(* capture:                                                                *)
(*   M48              hbegin_re                                            *)
(*   END   M95 or %   hend_re                                              *)
(*   T     T<id>[C<i>.<f>]  toolsel_re; toolset_re when C<i>.<f> is there  *)
(*         c = <<i, f>>, or <<>> for a line without C                      *)
(*   UNITS INCH|METRIC[,TZ|,LZ]   units_re; z = "" without the suffix      *)
(*   XY    [X<x>][Y<y>]  coordsnoperiod_re: digit strings without period   *)
(*   XYP   [X<x>.<xf>][Y<y>.<yf>]  coordsperiod_re                         *)
(*   OTHER M30, G90, ... : no pattern of the state the parser is in        *)
(* Lengths are fixed-point numbers in units of 10^-6 (Micro per unit).     *)
(***************************************************************************)
ELine(kind, id, c, u, z, hasx, x, xf, hasy, y, yf) ==
    [kind |-> kind, id |-> id, c |-> c, u |-> u, z |-> z, hasx |-> hasx,
     x |-> x, xf |-> xf, hasy |-> hasy, y |-> y, yf |-> yf]

M48Line == ELine("M48", <<>>, <<>>, "", "", FALSE, <<>>, <<>>, FALSE, <<>>, <<>>)
EndLine == ELine("END", <<>>, <<>>, "", "", FALSE, <<>>, <<>>, FALSE, <<>>, <<>>)
TLine(id, c) == ELine("T", id, c, "", "", FALSE, <<>>, <<>>, FALSE, <<>>, <<>>)
UnitsLine(u, z) == ELine("UNITS", <<>>, <<>>, u, z, FALSE, <<>>, <<>>, FALSE, <<>>, <<>>)
XYLine(hasx, x, hasy, y) == ELine("XY", <<>>, <<>>, "", "", hasx, x, <<>>, hasy, y, <<>>)
XYPLine(hasx, x, xf, hasy, y, yf) == ELine("XYP", <<>>, <<>>, "", "", hasx, x, xf, hasy, y, yf)
OtherLine == ELine("OTHER", <<>>, <<>>, "", "", FALSE, <<>>, <<>>, FALSE, <<>>, <<>>)

\* 10 ** 6: the fixed-point unit.
Micro == Pow10(6)

\* The tool ids the inputs use, and the keys they give (str(int(id))).
ToolIds == {<<1>>, <<0, 1>>, <<2>>}
ToolKeys == {StrOf(IntOf(i)) : i \in ToolIds}

\* ---------------------------------------------------------- Excellon: state

VARIABLES
    excellon_pc,               \* "parsing", "returned" or "raised"
    tools,                     \* self.tools: key -> diameter "C" (None: no key)
    drills,                    \* self.drills
    zeros,                     \* self.zeros: "L", "T" or "None"
    e_units,                   \* self.units
    e_solid_geometry,          \* self.solid_geometry
    current_tool,              \* the locals of parse_lines
    in_header,
    e_current_x,
    e_current_y,
    given_x,                   \* history: X of the last body coordinate line with X
    given_y,                   \* history: Y of the last body coordinate line with Y
    selected,                  \* history: the id on the last body T line, as written
    number_str,                \* the argument and the result of parse_number
    number_val

excellon_self == <<tools, drills, zeros, e_units, e_solid_geometry>>
excellon_locals == <<current_tool, in_header, e_current_x, e_current_y>>
excellon_history == <<given_x, given_y, selected>>
excellon_vars == <<excellon_pc, excellon_self, excellon_locals, excellon_history>>
number_vars == <<number_str, number_val>>

\* Excellon.__init__ and the first lines of parse_lines.
ExcellonInit ==
    /\ excellon_pc = "parsing"
    /\ tools = [k \in ToolKeys |-> None]
    /\ drills = <<>>
    /\ zeros = "L"
    /\ e_units = "in"
    /\ e_solid_geometry = <<>>
    /\ current_tool = <<>>
    /\ in_header = FALSE
    /\ e_current_x = None
    /\ e_current_y = None
    /\ given_x = None
    /\ given_y = None
    /\ selected = NoneId

\* key in self.tools
HasTool(key) == key \in DOMAIN tools /\ tools[key] # None

\* ------------------------------------------------------ Excellon: parse_number

\* leadingzeros_re = ^(0*)(\d*) : the leading zeros, and the digits after them.
RECURSIVE leadingzeros_group1(_)
leadingzeros_group1(s) ==
    IF s # <<>> /\ Head(s) = 0 THEN <<0>> \o leadingzeros_group1(Tail(s)) ELSE <<>>
leadingzeros_group2(s) == SubSeq(s, Len(leadingzeros_group1(s)) + 1, Len(s))

\* n / 10 ** e in units of 10^-6, for e <= 6.
Scaled(n, e) == n * Pow10(6 - e)

\* A variant that reads every literal as with trailing zeros.
parse_number_trailing(z, s) == Scaled(IntOf(s), 4)

\* Excellon.parse_number(number_str) under self.zeros = z.
parse_number(z, s) ==
    IF z = "L"
    THEN Scaled(IntOf(s), Len(leadingzeros_group2(s)) - 2 + Len(leadingzeros_group1(s)))
    ELSE Scaled(IntOf(s), 4)

\* float("<i>.<f>") in units of 10^-6.
FloatOf(i, f) == IntOf(i) * Micro + Scaled(IntOf(f), Len(f))

\* -------------------------------------------------- Excellon: parse_lines

EReading == excellon_pc = "parsing"

\* ## Header Begin ## (lines 1506-1508)
HeaderBegin ==
    /\ EReading
    /\ in_header' = TRUE
    /\ UNCHANGED <<excellon_pc, excellon_self, current_tool, e_current_x,
                   e_current_y, excellon_history>>

\* ## Header End ## (lines 1510-1512)
HeaderEnd ==
    /\ EReading
    /\ in_header' = FALSE
    /\ UNCHANGED <<excellon_pc, excellon_self, current_tool, e_current_x,
                   e_current_y, excellon_history>>

\* A variant that keeps the tool id as it is written.
ToolKeyRaw(id) == id

\* str(int(match.group(1))) (lines 1520, 1575)
ToolKey(id) == StrOf(IntOf(id))

\* ## Tool change ## (lines 1518-1521): current_tool = str(int(match.group(1)))
ToolSelect(l) ==
    /\ EReading
    /\ ~in_header
    /\ l.kind = "T"
    /\ current_tool' = ToolKey(l.id)
    /\ selected' = l.id
    /\ UNCHANGED <<excellon_pc, excellon_self, in_header, e_current_x,
                   e_current_y, given_x, given_y>>

\* A variant where an X that the line omits is not inherited.
CoordXNoInherit(l) ==
    IF ~l.hasx THEN None
    ELSE IF l.kind = "XY" THEN parse_number(zeros, l.x) ELSE FloatOf(l.x, l.xf)

\* The x and y of a coordinate line: the number parsed, or the current value
\* when the group is None (the TypeError branch).
CoordX(l) ==
    IF ~l.hasx THEN e_current_x
    ELSE IF l.kind = "XY" THEN parse_number(zeros, l.x) ELSE FloatOf(l.x, l.xf)
CoordY(l) ==
    IF ~l.hasy THEN e_current_y
    ELSE IF l.kind = "XY" THEN parse_number(zeros, l.y) ELSE FloatOf(l.y, l.yf)

\* The drill a coordinate line records.
Drill(x, y, tool) == [point |-> <<x, y>>, tool |-> tool]

\* ## Coordinates without period ##, ## Coordinates with period ##
\* (lines 1524-1567).
Coordinates(l) ==
    /\ EReading
    /\ ~in_header
    /\ l.kind \in {"XY", "XYP"}
    /\ l.hasx \/ l.hasy
    /\ e_current_x' = IF l.hasx THEN CoordX(l) ELSE e_current_x
    /\ e_current_y' = IF l.hasy THEN CoordY(l) ELSE e_current_y
    /\ given_x' = IF l.hasx THEN CoordX(l) ELSE given_x
    /\ given_y' = IF l.hasy THEN CoordY(l) ELSE given_y
    /\ IF CoordX(l) = None \/ CoordY(l) = None
       THEN UNCHANGED drills
       ELSE drills' = Append(drills, Drill(CoordX(l), CoordY(l), current_tool))
    /\ UNCHANGED <<excellon_pc, tools, zeros, e_units, e_solid_geometry,
                   current_tool, in_header, selected>>

\* ## Tool definitions ## (lines 1573-1585): toolset_re needs a letter after
\* the tool number.
ToolDefinition(l) ==
    /\ EReading
    /\ in_header
    /\ l.kind = "T"
    /\ l.c # <<>>
    /\ tools' = [tools EXCEPT ![ToolKey(l.id)] = FloatOf(l.c[1], l.c[2])]
    /\ UNCHANGED <<excellon_pc, drills, zeros, e_units, e_solid_geometry,
                   excellon_locals, excellon_history>>

\* ## Units and number format ## (lines 1588-1592): self.zeros = match.group(2)
UnitsAndFormat(l) ==
    /\ EReading
    /\ in_header
    /\ l.kind = "UNITS"
    /\ zeros' = IF l.z = "" THEN "None" ELSE l.z
    /\ e_units' = IF l.u = "INCH" THEN "IN" ELSE "MM"
    /\ UNCHANGED <<excellon_pc, tools, drills, e_solid_geometry,
                   excellon_locals, excellon_history>>

\* log.warning("Line ignored") (line 1594): a line that no pattern of the
\* section the parser is in matches.
LineIgnored(l) ==
    /\ EReading
    /\ \/ l.kind = "OTHER"
       \/ in_header /\ l.kind \in {"XY", "XYP"}
       \/ in_header /\ l.kind = "T" /\ l.c = <<>>
       \/ ~in_header /\ l.kind = "UNITS"
    /\ UNCHANGED excellon_vars

\* The end of the input: parse_lines returns.
EEndOfInput ==
    /\ EReading
    /\ excellon_pc' = "returned"
    /\ UNCHANGED <<excellon_self, excellon_locals, excellon_history>>

\* Excellon.create_geometry (lines 1611-1624): self.tools[drill['tool']]['C']
\* raises KeyError for a drill whose tool is not in the table.
create_geometry ==
    /\ excellon_pc = "returned"
    /\ IF \E i \in 1 .. Len(drills) : ~HasTool(drills[i].tool)
       THEN /\ excellon_pc' = "raised"
            /\ e_solid_geometry' =
                  LET bad == CHOOSE i \in 1 .. Len(drills) :
                                 /\ ~HasTool(drills[i].tool)
                                 /\ \A j \in 1 .. i - 1 : HasTool(drills[j].tool)
                  IN  [i \in 1 .. bad - 1 |->
                          [centre |-> drills[i].point, diameter |-> tools[drills[i].tool]]]
       ELSE /\ excellon_pc' = "geometry"
            /\ e_solid_geometry' =
                  [i \in 1 .. Len(drills) |->
                      [centre |-> drills[i].point, diameter |-> tools[drills[i].tool]]]
    /\ UNCHANGED <<tools, drills, zeros, e_units, excellon_locals, excellon_history>>

\* Excellon.parse_number on its own: one call on the argument number_str.
ParseNumber ==
    /\ number_val = None
    /\ number_val' = parse_number(zeros, number_str)
    /\ UNCHANGED number_str

\* ------------------------------------------------------------ CNCjob: G-code

(***************************************************************************)
(* A line of G-code text, as the words pre_parse splits it into: one word  *)
(* per code letter, <<>> for a letter the line does not have.  G, M and P  *)
(* hold the number written; X, Y, Z, I and J hold it in units of 10^-4     *)
(* (the "%.4f" of the generators) and F in units of 10^-2 ("%.2f").        *)
(***************************************************************************)
NoWords ==
    [G |-> <<>>, M |-> <<>>, X |-> <<>>, Y |-> <<>>, Z |-> <<>>,
     I |-> <<>>, J |-> <<>>, F |-> <<>>, P |-> <<>>]
CodeLetters == {"G", "M", "X", "Y", "Z", "I", "J", "F", "P"}

\* "%.4f" % v and "%.2f" % v of a length v in units of 10^-6.
Fmt4(v) == (v + 50) \div 100
Fmt2(v) == (v + 5000) \div 10000

GLine(g) == [NoWords EXCEPT !.G = <<g>>]
MLine(m) == [NoWords EXCEPT !.M = <<m>>]
FLine(f) == [NoWords EXCEPT !.F = <<Fmt2(f)>>]
GZLine(g, z) == [NoWords EXCEPT !.G = <<g>>, !.Z = <<Fmt4(z)>>]
GXYLine(g, p) == [NoWords EXCEPT !.G = <<g>>, !.X = <<Fmt4(p[1])>>, !.Y = <<Fmt4(p[2])>>]
PauseLine == [NoWords EXCEPT !.G = <<4>>, !.P = <<1>>]

\* The defaults of CNCjob.__init__, in units of 10^-6.
ZMoveInit == 100000
FeedrateInit == 3000000
ZCutInit == -2000
TooldiaInit == 0
StepsPerCirc == 20

\* ------------------------------------------------------------ CNCjob: state

VARIABLES
    cnc_pc,                    \* "ready", or "raised" after an exception
    cnc_units,                 \* self.units
    z_cut,                     \* self.z_cut
    z_move,                    \* self.z_move
    feedrate,                  \* self.feedrate
    tooldia,                   \* self.tooldia
    gcode,                     \* self.gcode: the lines of the text
    gcode_parsed,              \* self.gcode_parsed: [none, list]
    input_geometry_bounds,     \* self.input_geometry_bounds (<<>>: None)
    gobjs,                     \* gcode_parse: the commands still to read
    current,                   \* gcode_parse: the locals current, path,
    g_path,                    \*   kind and geometry
    kind,
    geometry,
    path_kinds,                \* history: the kind computed for each motion of path
    given_geometry             \* history: the last argument of generate_from_geometry

cnc_self ==
    <<cnc_units, z_cut, z_move, feedrate, tooldia, gcode, gcode_parsed,
      input_geometry_bounds>>
cnc_locals == <<gobjs, current, g_path, kind, geometry>>
cnc_history == <<path_kinds, given_geometry>>
cnc_vars == <<cnc_pc, cnc_self, cnc_locals, cnc_history>>

\* CNCjob.__init__ (lines 1709-1726), gcode_parse not running.
NoneParsed == [none |-> TRUE, list |-> <<>>]
NotParsing ==
    /\ gobjs = <<>>
    /\ current = [X |-> 0, Y |-> 0, Z |-> 0, G |-> 0]
    /\ g_path = <<>>
    /\ kind = <<"C", "F">>
    /\ geometry = <<>>
    /\ path_kinds = <<>>
CNCInit ==
    /\ cnc_pc = "ready"
    /\ cnc_units = "in"
    /\ z_cut = ZCutInit
    /\ z_move = ZMoveInit
    /\ feedrate = FeedrateInit
    /\ tooldia = TooldiaInit
    /\ gcode = <<>>
    /\ gcode_parsed = NoneParsed
    /\ input_geometry_bounds = <<>>
    /\ NotParsing
    /\ given_geometry = <<>>

\* units.upper(), for the unit strings in use.
Upper(u) ==
    IF u \in {"in", "IN"} THEN "IN" ELSE IF u \in {"mm", "MM"} THEN "MM" ELSE u

\* self.unitcode[self.units.upper()]: "G20" or "G21".
unitcode(u) == IF Upper(u) = "IN" THEN GLine(20) ELSE GLine(21)

\* The lines both generators start with (lines 1817-1823, 1864-1870):
\* units, G90, G94, F, G00 Z<z_move>, M03, G04 P1.
Prologue ==
    <<unitcode(cnc_units), GLine(90), GLine(94), FLine(feedrate),
      GZLine(0, z_move), MLine(3), PauseLine>>

\* ---------------------------------- CNCjob: generate_from_excellon_by_tool

\* The concatenation of the sequences of a sequence.
RECURSIVE Flatten(_)
Flatten(ss) == IF ss = <<>> THEN <<>> ELSE Head(ss) \o Flatten(Tail(ss))

\* A variant that keeps every listed name, in the table or not.
SelectedToolsListed(sel) ==
    IF sel.all THEN {k \in DOMAIN tools : HasTool(k)}
    ELSE {sel.ids[i] : i \in 1 .. Len(sel.ids)}

\* tools: every key of exobj.tools for "all", else the names of the list
\* that are keys of exobj.tools (lines 1797-1801).
SelectedTools(sel) ==
    IF sel.all THEN {k \in DOMAIN tools : HasTool(k)}
    ELSE {sel.ids[i] : i \in {j \in 1 .. Len(sel.ids) : HasTool(sel.ids[j])}}

\* points: drill['point'] of the drills whose tool is selected, in the
\* order of exobj.drills (lines 1804-1807).
DrillPoints(sel) ==
    LET chosen == SelectSeq(drills, LAMBDA d : d.tool \in SelectedTools(sel))
    IN  [i \in 1 .. Len(chosen) |-> chosen[i].point]

\* A variant that goes up with a rapid move.
DrillBlockRapidUp(p) == <<GXYLine(0, p), GZLine(1, z_cut), GZLine(0, z_move)>>

\* t % (x, y), down and up (lines 1813-1815, 1825-1828).
DrillBlock(p) == <<GXYLine(0, p), GZLine(1, z_cut), GZLine(1, z_move)>>

Origin == <<0, 0>>

\* generate_from_excellon_by_tool (lines 1784-1833).
generate_from_excellon_by_tool(sel) ==
    /\ cnc_pc = "ready"
    /\ excellon_pc \in {"returned", "geometry"}
    /\ gobjs = <<>>
    /\ gcode' = Prologue
                  \o Flatten([i \in 1 .. Len(DrillPoints(sel)) |->
                                 DrillBlock(DrillPoints(sel)[i])])
                  \o <<GXYLine(0, Origin), MLine(5)>>
    /\ UNCHANGED <<cnc_pc, cnc_units, z_cut, z_move, feedrate, tooldia,
                   gcode_parsed, input_geometry_bounds, cnc_locals, cnc_history>>

\* ------------------------------------------- CNCjob: generate_from_geometry

(***************************************************************************)
(* A shape of geometry.solid_geometry: a Polygon (coords is the exterior   *)
(* ring, closed, as exterior.coords gives it; interiors the rings of the   *)
(* holes), a LineString or LinearRing (coords), a Point (coords has the    *)
(* one point) or a MultiPolygon (polys).  Coordinates are in units of      *)
(* 10^-6.                                                                  *)
(***************************************************************************)
Shape(type, coords, interiors, polys) ==
    [type |-> type, coords |-> coords, interiors |-> interiors, polys |-> polys]
Polygon(exterior, interiors) == Shape("Polygon", exterior, interiors, <<>>)
LineString(coords) == Shape("LineString", coords, <<>>, <<>>)
Point(p) == Shape("Point", <<p>>, <<>>, <<>>)
MultiPolygon(polys) == Shape("MultiPolygon", <<>>, <<>>, polys)

\* A variant that starts the cut at the second vertex.
RingCodeFromSecond(ring) ==
    <<GXYLine(0, ring[2]), GZLine(1, z_cut)>>
        \o [i \in 1 .. Len(ring) - 2 |-> GXYLine(1, ring[i + 2])]
        \o <<GZLine(0, z_move)>>

\* A variant that follows the path with rapid moves.
RingCodeRapidAlong(ring) ==
    <<GXYLine(0, ring[1]), GZLine(1, z_cut)>>
        \o [i \in 1 .. Len(ring) - 1 |-> GXYLine(0, ring[i + 1])]
        \o <<GZLine(0, z_move)>>

\* The block of a path (lines 2131-2136, 2138-2143, 2166-2171):
\* G00 to path[0], G01 Z<z_cut>, G01 to each of path[1:], G00 Z<z_move>.
RingCode(ring) ==
    <<GXYLine(0, ring[1]), GZLine(1, z_cut)>>
        \o [i \in 1 .. Len(ring) - 1 |-> GXYLine(1, ring[i + 1])]
        \o <<GZLine(0, z_move)>>

\* A variant that cuts the exterior only.
polygon2gcode_exterior(polygon) == RingCode(polygon.coords)

\* polygon2gcode (lines 2111-2145) with tolerance = 0: the exterior, then
\* every interior.
polygon2gcode(polygon) ==
    RingCode(polygon.coords)
        \o Flatten([i \in 1 .. Len(polygon.interiors) |-> RingCode(polygon.interiors[i])])

\* linear2gcode (lines 2147-2173) with tolerance = 0.
linear2gcode(linear) == RingCode(linear.coords)

\* What the loop of generate_from_geometry adds for geo (lines 1872-1888).
\* point2gcode has no return statement: see generate_from_geometry.
ShapeCode(geo) ==
    IF geo.type = "Polygon" THEN polygon2gcode(geo)
    ELSE IF geo.type = "LineString" THEN linear2gcode(geo)
    ELSE IF geo.type = "MultiPolygon"
         THEN Flatten([i \in 1 .. Len(geo.polys) |-> polygon2gcode(geo.polys[i])])
    ELSE <<>>

\* The vertices of a shape, and geometry.bounds() (lines 64-77) as
\* (xmin, ymin, xmax, ymax) of the vertices.
ShapePoints(geo) ==
    {geo.coords[i] : i \in 1 .. Len(geo.coords)}
        \cup UNION {{geo.interiors[i][j] : j \in 1 .. Len(geo.interiors[i])} :
                        i \in 1 .. Len(geo.interiors)}
        \cup UNION {{geo.polys[i].coords[j] : j \in 1 .. Len(geo.polys[i].coords)} :
                        i \in 1 .. Len(geo.polys)}
MinOf(S) == CHOOSE v \in S : \A w \in S : v <= w
MaxOf(S) == CHOOSE v \in S : \A w \in S : v >= w
bounds(shapes) ==
    LET pts == UNION {ShapePoints(shapes[i]) : i \in 1 .. Len(shapes)}
    IN  <<MinOf({p[1] : p \in pts}), MinOf({p[2] : p \in pts}),
          MaxOf({p[1] : p \in pts}), MaxOf({p[2] : p \in pts})>>

\* generate_from_geometry (lines 1835-1890), tolerance = 0.  self.gcode is
\* assigned the units line whatever append is.  For a Point the loop does
\* self.gcode += self.point2gcode(geo), and point2gcode returns None:
\* TypeError, with self.gcode holding the text up to that shape.
generate_from_geometry(shapes, append, td) ==
    /\ cnc_pc = "ready"
    /\ gobjs = <<>>
    /\ shapes # <<>>
    /\ tooldia' = IF td # None THEN td ELSE tooldia
    /\ input_geometry_bounds' = bounds(shapes)
    /\ given_geometry' = shapes
    /\ LET points == {i \in 1 .. Len(shapes) : shapes[i].type = "Point"}
           done == IF points = {} THEN Len(shapes) ELSE MinOf(points) - 1
           body == Flatten([i \in 1 .. done |-> ShapeCode(shapes[i])])
       IN  IF points = {}
           THEN /\ gcode' = Prologue \o body
                               \o <<GZLine(0, z_move), GXYLine(0, Origin), MLine(5)>>
                /\ cnc_pc' = "ready"
           ELSE /\ gcode' = Prologue \o body
                /\ cnc_pc' = "raised"
    /\ UNCHANGED <<cnc_units, z_cut, z_move, feedrate, gcode_parsed, cnc_locals,
                   path_kinds>>

\* ------------------------------------------------------ CNCjob: gcode_parse

\* pre_parse (lines 1892-1950): a line without code letters gives no
\* command; cmds[part[0]] = float(part[1:]).  The numbers of a command are
\* in units of 10^-6, G, M and P as written.
HasWords(line) == \E c \in CodeLetters : line[c] # <<>>
FloatWord(w, unit) == IF w = <<>> THEN <<>> ELSE <<w[1] * unit>>
Command(line) ==
    [G |-> line.G, M |-> line.M, P |-> line.P,
     X |-> FloatWord(line.X, 100), Y |-> FloatWord(line.Y, 100),
     Z |-> FloatWord(line.Z, 100), I |-> FloatWord(line.I, 100),
     J |-> FloatWord(line.J, 100), F |-> FloatWord(line.F, 10000)]
pre_parse(gtext) ==
    LET coded == SelectSeq(gtext, HasWords)
    IN  [i \in 1 .. Len(coded) |-> Command(coded[i])]

\* self.units after pre_parse: units_re = ^G2([01]) on every line, the
\* last match wins.
RECURSIVE pre_parse_units(_, _)
pre_parse_units(gtext, u) ==
    IF gtext = <<>> THEN u
    ELSE pre_parse_units(Tail(gtext),
             IF Head(gtext).G = <<20>> THEN "IN"
             ELSE IF Head(gtext).G = <<21>> THEN "MM"
             ELSE u)

\* arctan2 in quarter turns, for a vector along an axis.  -gobj['J'] is
\* -0.0 for J = 0.0: arctan2(-0.0, dx) is -0.0 for dx > 0 and -pi otherwise;
\* the differences -center + (x, y) give +0.0: arctan2(0.0, dx) is 0.0 for
\* dx >= 0 and pi for dx < 0.
StartAngle(i, j) ==
    IF j > 0 THEN -1
    ELSE IF j < 0 THEN 1
    ELSE IF i < 0 THEN 0 ELSE -2
StopAngle(dy, dx) ==
    IF dy > 0 THEN 1
    ELSE IF dy < 0 THEN -1
    ELSE IF dx >= 0 THEN 0 ELSE 2

\* sqrt(I**2 + J**2) for a vector along an axis.
Radius(i, j) == Abs(i) + Abs(j)

\* center + radius * (cos, sin) of num / den of a turn: the point itself
\* when the angle is a multiple of a quarter turn, else the tuple
\* <<cx, cy, radius, num, den>> that stands for it.
ArcPoint(center, radius, num, den) ==
    IF (4 * num) % den = 0
    THEN LET k == ((4 * num) \div den) % 4
         IN  <<center[1] + (IF k = 0 THEN radius ELSE IF k = 2 THEN -radius ELSE 0),
               center[2] + (IF k = 1 THEN radius ELSE IF k = 3 THEN -radius ELSE 0)>>
    ELSE <<center[1], center[2], radius, num % den, den>>

\* A variant that stops at the half of the sweep.
arc_half(center, radius, start, stop, direction, steps_per_circ) ==
    LET stop1 == IF direction = "ccw" /\ stop <= start THEN stop + 4
                 ELSE IF direction = "cw" /\ stop >= start THEN stop - 4
                 ELSE stop
        angle == Abs(stop1 - start) \div 2
        ceil == (angle * steps_per_circ + 3) \div 4
        steps == IF ceil > 2 THEN ceil ELSE 2
        sign == IF direction = "ccw" THEN 1 ELSE -1
    IN  [n \in 1 .. steps + 1 |->
            ArcPoint(center, radius, start * steps + sign * (n - 1) * angle, 4 * steps)]

\* arc (lines 2256-2293), the angles in quarter turns: steps + 1 points from
\* start to stop, steps = max(ceil(angle / (2 pi) * steps_per_circ), 2).
arc(center, radius, start, stop, direction, steps_per_circ) ==
    LET stop1 == IF direction = "ccw" /\ stop <= start THEN stop + 4
                 ELSE IF direction = "cw" /\ stop >= start THEN stop - 4
                 ELSE stop
        angle == Abs(stop1 - start)
        ceil == (angle * steps_per_circ + 3) \div 4
        steps == IF ceil > 2 THEN ceil ELSE 2
        sign == IF direction = "ccw" THEN 1 ELSE -1
    IN  [n \in 1 .. steps + 1 |->
            ArcPoint(center, radius, start * steps + sign * (n - 1) * angle, 4 * steps)]

\* An element of gcode_parsed: geom is the LineString's coordinates;
\* motions (history) holds the kind computed for each motion of geom.
Entry(geom, k, motions) == [geom |-> geom, kind |-> k, motions |-> motions]

\* gcode_parse, lines 1952-1972: pre_parse and the initial locals.
GcodeParseBegin ==
    /\ cnc_pc = "ready"
    /\ cnc_pc' = "parsing"
    /\ cnc_units' = pre_parse_units(gcode, cnc_units)
    /\ gobjs' = pre_parse(gcode)
    /\ current' = [X |-> 0, Y |-> 0, Z |-> 0, G |-> 0]
    /\ g_path' = <<Origin>>
    /\ kind' = <<"C", "F">>
    /\ geometry' = <<>>
    /\ path_kinds' = <<>>
    /\ UNCHANGED <<z_cut, z_move, feedrate, tooldia, gcode, gcode_parsed,
                   input_geometry_bounds, given_geometry>>

\* gcode_parse, lines 1975-2026: one pass of "for gobj in gobjs".  Of the
\* keys the last loop copies into current only X, Y, Z and G are ever read.
GcodeCommand ==
    /\ cnc_pc = "parsing"
    /\ gobjs # <<>>
    /\ LET gobj == Head(gobjs)
           has_z == gobj.Z # <<>>
           z == IF has_z THEN gobj.Z[1] ELSE current.Z
           store == has_z /\ Len(g_path) > 1
           geometry1 == IF store THEN Append(geometry, Entry(g_path, kind, path_kinds))
                        ELSE geometry
           path1 == IF store THEN <<g_path[Len(g_path)]>> ELSE g_path
           kinds1 == IF store THEN <<>> ELSE path_kinds
           g == IF gobj.G # <<>> THEN gobj.G[1] ELSE current.G
           motion == gobj.X # <<>> \/ gobj.Y # <<>>
           x == IF gobj.X # <<>> THEN gobj.X[1] ELSE current.X
           y == IF gobj.Y # <<>> THEN gobj.Y[1] ELSE current.Y
           kind1 == <<IF z > 0 THEN "T" ELSE "C", IF g > 0 THEN "S" ELSE "F">>
           center == <<gobj.I[1] + current.X, gobj.J[1] + current.Y>>
           points == arc(center, Radius(gobj.I[1], gobj.J[1]),
                         StartAngle(gobj.I[1], gobj.J[1]),
                         StopAngle(y - center[2], x - center[1]),
                         IF g = 2 THEN "cw" ELSE "ccw", StepsPerCirc)
       IN  IF motion /\ g \in {2, 3} /\ (gobj.I = <<>> \/ gobj.J = <<>>)
           THEN \* gobj['I']: KeyError
                /\ cnc_pc' = "raised"
                /\ geometry' = geometry1
                /\ g_path' = path1
                /\ path_kinds' = kinds1
                /\ kind' = kind1
                /\ current' = [current EXCEPT !.Z = z, !.G = g]
                /\ UNCHANGED gobjs
           ELSE /\ cnc_pc' = "parsing"
                /\ geometry' = geometry1
                /\ kind' = IF motion THEN kind1 ELSE kind
                /\ g_path' =
                      IF motion /\ g \in {0, 1} THEN Append(path1, <<x, y>>)
                      ELSE IF motion /\ g \in {2, 3} THEN path1 \o points
                      ELSE path1
                /\ path_kinds' =
                      IF motion /\ g \in {0, 1} THEN Append(kinds1, kind1)
                      ELSE IF motion /\ g \in {2, 3}
                           THEN kinds1 \o [n \in 1 .. Len(points) |-> kind1]
                      ELSE kinds1
                /\ current' = [X |-> x, Y |-> y, Z |-> z, G |-> g]
                /\ gobjs' = Tail(gobjs)
    /\ UNCHANGED <<cnc_self, given_geometry>>

\* gcode_parse, lines 2028-2036: the final path, self.gcode_parsed.
GcodeParseEnd ==
    /\ cnc_pc = "parsing"
    /\ gobjs = <<>>
    /\ cnc_pc' = "ready"
    /\ gcode_parsed' =
          [none |-> FALSE,
           list |-> IF Len(g_path) > 1
                    THEN Append(geometry, Entry(g_path, kind, path_kinds))
                    ELSE geometry]
    /\ current' = [X |-> 0, Y |-> 0, Z |-> 0, G |-> 0]
    /\ g_path' = <<>>
    /\ kind' = <<"C", "F">>
    /\ geometry' = <<>>
    /\ path_kinds' = <<>>
    /\ UNCHANGED <<cnc_units, z_cut, z_move, feedrate, tooldia, gcode,
                   input_geometry_bounds, gobjs, given_geometry>>

\* from_dict (lines 176-190) on a new CNCjob: "gcode" is one of ser_attrs
\* (line 1731), so a saved job brings its own text.
LoadGcode(gtext) ==
    /\ cnc_pc = "ready"
    /\ gcode = <<>>
    /\ gcode_parsed.none
    /\ gcode' = gtext
    /\ UNCHANGED <<cnc_pc, cnc_units, z_cut, z_move, feedrate, tooldia, gcode_parsed,
                   input_geometry_bounds, cnc_locals, cnc_history>>

\* FlatCAMObj.py lines 594-596 and 894-896: the heights and the feed rate
\* of a new job are assigned from the options before the job is generated.
JobOptions(zc, zm, f) ==
    /\ cnc_pc = "ready"
    /\ gcode = <<>>
    /\ gcode_parsed.none
    /\ z_cut' = zc
    /\ z_move' = zm
    /\ feedrate' = f
    /\ UNCHANGED <<cnc_pc, cnc_units, tooldia, gcode, gcode_parsed,
                   input_geometry_bounds, cnc_locals, cnc_history>>

\* ------------------------------------------------- Gerber: arcs and modes

VARIABLES
    quadrant_mode,              \* "" for None, "SINGLE" or "MULTI"
    current_interpolation_mode, \* None, 1, 2 or 3
    last_code                   \* history: the operation code of the last
                                \*   line read that carried one

arc_modes == <<quadrant_mode, current_interpolation_mode>>
arc_vars == <<arc_modes, last_code>>

\* parse_lines, lines 889 and 905.
ArcInit ==
    /\ quadrant_mode = ""
    /\ current_interpolation_mode = None
    /\ last_code = None

\* self.steps_per_circ (line 701).
GerberStepsPerCirc == 40

(***************************************************************************)
(* The lines of the arc patterns:                                          *)
(*   CIRC   [G0(2|3)][X<x>][Y<y>][I<i>][J<j>][D0(1|2)]*   circ_re          *)
(*          g = 0 without G, d = 0 without D, NoLit for a missing number   *)
(*   QUAD   G7(4|5)*    quad_re                                            *)
(*   INTERP G0(1|2|3)*  interp_re                                          *)
(***************************************************************************)
CircLine(g, x, y, i, j, d) ==
    [kind |-> "CIRC", g |-> g, x |-> x, y |-> y, i |-> i, j |-> j, d |-> d]
QuadLine(n) == [kind |-> "QUAD", n |-> n]
InterpLine(g) == [kind |-> "INTERP", g |-> g]

\* ### G74/75* (lines 1103-1110).
QuadrantMode(l) ==
    /\ Reading
    /\ l.kind = "QUAD"
    /\ quadrant_mode' = IF l.n = 4 THEN "SINGLE" ELSE "MULTI"
    /\ NoRaise
    /\ UNCHANGED <<gerber_self, gerber_locals, current_interpolation_mode>>

\* ### G01/2/3* without coordinates (lines 1165-1168).
InterpolationMode(l) ==
    /\ Reading
    /\ l.kind = "INTERP"
    /\ current_interpolation_mode' = l.g
    /\ NoRaise
    /\ UNCHANGED <<gerber_self, gerber_locals, quadrant_mode>>

\* The numbers of a circular line (lines 1010-1026): a missing X or Y is
\* the current coordinate, a missing I or J is the integer 0.
CircX(l) == IF l.x # NoLit THEN parse_gerber_number(l.x, frac_digits) ELSE current_x
CircY(l) == IF l.y # NoLit THEN parse_gerber_number(l.y, frac_digits) ELSE current_y
CircI(l) == IF l.i # NoLit THEN parse_gerber_number(l.i, frac_digits) ELSE 0
CircJ(l) == IF l.j # NoLit THEN parse_gerber_number(l.j, frac_digits) ELSE 0
CircOp(l) == IF l.d # 0 THEN l.d ELSE current_operation_code
CircMode(l) == IF l.g # 0 THEN l.g ELSE current_interpolation_mode

\* arctan2(-j, -i) in quarter turns for (i, j) along an axis (line 1069).
\* A parsed 0 is the float 0.0 and its negation -0.0; a missing number is
\* the integer 0, whose negation is 0: arctan2(-0.0, x) is -0.0 or -pi,
\* arctan2(0, x) is 0.0 or pi, and pi is taken for x negative or -0.0.
CircStart(l) ==
    LET i == CircI(l)
        j == CircJ(l)
        xneg == i > 0 \/ (i = 0 /\ l.i # NoLit)
    IN  IF j > 0 THEN -1
        ELSE IF j < 0 THEN 1
        ELSE IF ~xneg THEN 0
        ELSE IF l.j # NoLit THEN -2 ELSE 2

\* The arc of a circular line in multi quadrant mode (lines 1067-1074).
CircCenter(l) == <<CircI(l) + current_x, CircJ(l) + current_y>>
CircArc(l) ==
    arc(CircCenter(l), Radius(CircI(l), CircJ(l)), CircStart(l),
        StopAngle(CircY(l) - CircCenter(l)[2], CircX(l) - CircCenter(l)[1]),
        IF CircMode(l) = 2 THEN "cw" ELSE "ccw", GerberStepsPerCirc)

\* A variant that skips an arc for a flash only.
SkipsArcForFlash(l) == CircOp(l) = 3

\* The arc is not drawn (lines 1060-1063 and 1087-1088).
SkipsArc(l) == CircOp(l) = 3 \/ quadrant_mode = "SINGLE"

\* ### G02/3 - Circular interpolation (lines 1005-1088).  The D02 branch
\* and the flash branch come before the quadrant mode is looked at; the
\* D02 branch buffers the path as a stroke, in region mode too.
Circular(l) ==
    /\ Reading
    /\ l.kind = "CIRC"
    /\ UNCHANGED <<gerber_self, current_aperture, current_macro, current_polarity,
                   making_region, quadrant_mode>>
    /\ IF quadrant_mode = "" \/ (l.g = 0 /\ current_interpolation_mode \notin {2, 3}) THEN
           /\ NoRaise
           /\ UNCHANGED <<path, poly_buffer, last_path_aperture, current_operation_code,
                          current_x, current_y, current_interpolation_mode>>
       ELSE
           /\ current_interpolation_mode' = CircMode(l)
           /\ current_operation_code' = CircOp(l)
           /\ IF CircOp(l) = 2 THEN
                  IF Len(path) > 1 /\ StrokeExc(last_path_aperture) # "" THEN
                      /\ Raise(StrokeExc(last_path_aperture))
                      /\ UNCHANGED <<path, poly_buffer, last_path_aperture,
                                     current_x, current_y>>
                  ELSE
                      /\ poly_buffer' = IF Len(path) > 1
                                        THEN Append(poly_buffer,
                                                    StrokeGeo(path, last_path_aperture))
                                        ELSE poly_buffer
                      /\ current_x' = CircX(l)
                      /\ current_y' = CircY(l)
                      /\ path' = <<<<CircX(l), CircY(l)>>>>
                      /\ NoRaise
                      /\ UNCHANGED last_path_aperture
              ELSE IF SkipsArc(l) THEN
                  /\ NoRaise
                  /\ UNCHANGED <<path, poly_buffer, last_path_aperture,
                                 current_x, current_y>>
              ELSE IF current_x = None \/ current_y = None THEN
                  /\ Raise("TypeError")
                  /\ UNCHANGED <<path, poly_buffer, last_path_aperture,
                                 current_x, current_y>>
              ELSE
                  /\ current_x' = CircArc(l)[Len(CircArc(l))][1]
                  /\ current_y' = CircArc(l)[Len(CircArc(l))][2]
                  /\ path' = path \o CircArc(l)
                  /\ last_path_aperture' = current_aperture
                  /\ NoRaise
                  /\ UNCHANGED poly_buffer

\* ------------------------------------------------- transforms and units

VARIABLES
    g_units,                   \* self.units of the Gerber object
    parsed_solid,              \* history: solid_geometry as parse_lines left it
    transforms,                \* history: the calls of scale, offset and mirror
    created                    \* history: the last call on the Gerber object
                               \*   was create_geometry

post_vars == <<g_units, parsed_solid, transforms, created>>

\* Geometry.__init__ (line 44).
PostInit ==
    /\ g_units = "in"
    /\ parsed_solid = {}
    /\ transforms = 0
    /\ created = FALSE

\* A factor num / den; 25.4 and 1 / 25.4 (lines 151-154).
Factor(num, den) == [num |-> num, den |-> den]
MMFactor == Factor(127, 5)
INFactor == Factor(5, 127)
One == Factor(1, 1)

\* affinity.scale of one coordinate about the origin o, and the product of
\* a length and a factor.
ScaleCoord(v, f, o) == o + ((v - o) * f.num) \div f.den
Times(v, f) == (v * f.num) \div f.den

\* Geometry.convert_units (lines 135-161) up to self.scale(factor): the
\* factor, or <<>> when the method returns 1.0 before changing anything.
Conversion(self_units, units) ==
    IF Upper(units) = Upper(self_units) THEN <<>>
    ELSE IF Upper(units) = "MM" THEN <<MMFactor>>
    ELSE IF Upper(units) = "IN" THEN <<INFactor>>
    ELSE <<>>

\* A transformed Gerber geometry is a set of boxes <<x0, y0, x1, y1>> in
\* units of 10^-3, one per cell of the parsed geometry.
BoxUnit == Pow10(3)
AsBoxes(geo) ==
    {IF Len(c) = 2
     THEN <<c[1] * BoxUnit, c[2] * BoxUnit, (c[1] + 1) * BoxUnit, (c[2] + 1) * BoxUnit>>
     ELSE c : c \in geo}
Max2(a, b) == IF a > b THEN a ELSE b
ScaleBoxes(geo, fx, fy, o) ==
    {LET x0 == ScaleCoord(b[1], fx, o[1])
         y0 == ScaleCoord(b[2], fy, o[2])
         x1 == ScaleCoord(b[3], fx, o[1])
         y1 == ScaleCoord(b[4], fy, o[2])
     IN  <<Min2(x0, x1), Min2(y0, y1), Max2(x0, x1), Max2(y0, y1)>> : b \in AsBoxes(geo)}
TranslateBoxes(geo, v) ==
    {<<b[1] + v[1], b[2] + v[2], b[3] + v[1], b[4] + v[2]>> : b \in AsBoxes(geo)}

\* xscale, yscale of mirror (lines 779, 1672).
MirrorX(axis) == IF axis = "X" THEN Factor(1, 1) ELSE Factor(-1, 1)
MirrorY(axis) == IF axis = "X" THEN Factor(-1, 1) ELSE Factor(1, 1)

GerberParsed == gerber_pc = "returned"
gerber_tables ==
    <<gerber_pc, gerber_exc, apertures, aperture_macros, frac_digits, int_digits,
      gerber_locals>>

\* Gerber.scale (lines 703-726).
GerberScale(factor) ==
    /\ GerberParsed
    /\ solid_geometry' = ScaleBoxes(solid_geometry, factor, factor, <<0, 0>>)
    /\ transforms' = transforms + 1
    /\ created' = FALSE
    /\ UNCHANGED <<gerber_tables, g_units, parsed_solid>>

\* Gerber.offset (lines 731-751).
GerberOffset(vect) ==
    /\ GerberParsed
    /\ solid_geometry' = TranslateBoxes(solid_geometry, vect)
    /\ transforms' = transforms + 1
    /\ created' = FALSE
    /\ UNCHANGED <<gerber_tables, g_units, parsed_solid>>

\* Gerber.mirror (lines 756-784).
GerberMirror(axis, point) ==
    /\ GerberParsed
    /\ solid_geometry' = ScaleBoxes(solid_geometry, MirrorX(axis), MirrorY(axis), point)
    /\ transforms' = transforms + 1
    /\ created' = FALSE
    /\ UNCHANGED <<gerber_tables, g_units, parsed_solid>>

\* Geometry.convert_units on a Gerber object (lines 135-161): Gerber does not
\* override it, and self.scale is Gerber.scale.
GerberConvertUnits(units) ==
    /\ GerberParsed
    /\ \E conv \in {Conversion(g_units, units)} :
           IF conv = <<>>
           THEN UNCHANGED <<solid_geometry, g_units>>
           ELSE /\ solid_geometry' = ScaleBoxes(solid_geometry, conv[1], conv[1], <<0, 0>>)
                /\ g_units' = units
    /\ created' = FALSE
    /\ UNCHANGED <<gerber_tables, parsed_solid, transforms>>

\* Gerber.create_geometry (lines 1313-1332): the body is a docstring and
\* commented-out code.
GerberCreateGeometry ==
    /\ GerberParsed
    /\ created' = TRUE
    /\ UNCHANGED <<gerber_vars, g_units, parsed_solid, transforms>>

\* Excellon.create_geometry (lines 1611-1624) on the tables tl and dr: the
\* circles made, and whether self.tools[drill['tool']] raises KeyError.
HasKey(tl, key) == key \in DOMAIN tl /\ tl[key] # None
GeometryRaises(tl, dr) == \E i \in 1 .. Len(dr) : ~HasKey(tl, dr[i].tool)
GeometryOf(tl, dr) ==
    LET good == {i \in 1 .. Len(dr) : \A j \in 1 .. i : HasKey(tl, dr[j].tool)}
    IN  [i \in 1 .. Cardinality(good) |->
            [centre |-> dr[i].point, diameter |-> tl[dr[i].tool]]]

ExcellonParsed == excellon_pc \in {"returned", "geometry"}

\* The end of a transform: self.create_geometry() on the new tables.
Rematerialize(tl, dr) ==
    /\ excellon_pc' = IF GeometryRaises(tl, dr) THEN "raised" ELSE "geometry"
    /\ e_solid_geometry' = GeometryOf(tl, dr)

\* A variant that leaves the drills where they are.
ScaleDrillsNot(dr, fx, fy, o) == dr

ScaleDrills(dr, fx, fy, o) ==
    [i \in 1 .. Len(dr) |->
        [dr[i] EXCEPT !.point = <<ScaleCoord(dr[i].point[1], fx, o[1]),
                                  ScaleCoord(dr[i].point[2], fy, o[2])>>]]

\* Excellon.scale (lines 1626-1641).
ExcellonScale(factor) ==
    /\ ExcellonParsed
    /\ drills' = ScaleDrills(drills, factor, factor, <<0, 0>>)
    /\ Rematerialize(tools, drills')
    /\ transforms' = transforms + 1
    /\ UNCHANGED <<tools, zeros, e_units, excellon_locals, excellon_history,
                   g_units, parsed_solid, created>>

\* Excellon.offset (lines 1643-1659).
ExcellonOffset(vect) ==
    /\ ExcellonParsed
    /\ drills' = [i \in 1 .. Len(drills) |->
                     [drills[i] EXCEPT !.point = <<drills[i].point[1] + vect[1],
                                                   drills[i].point[2] + vect[2]>>]]
    /\ Rematerialize(tools, drills')
    /\ transforms' = transforms + 1
    /\ UNCHANGED <<tools, zeros, e_units, excellon_locals, excellon_history,
                   g_units, parsed_solid, created>>

\* Excellon.mirror (lines 1661-1679).
ExcellonMirror(axis, point) ==
    /\ ExcellonParsed
    /\ drills' = ScaleDrills(drills, MirrorX(axis), MirrorY(axis), point)
    /\ Rematerialize(tools, drills')
    /\ transforms' = transforms + 1
    /\ UNCHANGED <<tools, zeros, e_units, excellon_locals, excellon_history,
                   g_units, parsed_solid, created>>

\* Excellon.convert_units (lines 1681-1690).  Geometry.convert_units calls
\* Excellon.scale, whose create_geometry may raise before the tools are
\* scaled; with no conversion the factor is 1.0 and create_geometry still
\* runs.
ExcellonConvertUnits(units) ==
    /\ ExcellonParsed
    /\ \E conv \in {Conversion(e_units, units)} :
       \E factor \in {IF conv = <<>> THEN One ELSE conv[1]} :
       \E scaled \in {IF conv = <<>> THEN drills
                      ELSE ScaleDrills(drills, factor, factor, <<0, 0>>)} :
           /\ e_units' = IF conv = <<>> THEN e_units ELSE units
           /\ drills' = scaled
           /\ IF conv # <<>> /\ GeometryRaises(tools, scaled)
              THEN /\ tools' = tools
                   /\ excellon_pc' = "raised"
                   /\ e_solid_geometry' = GeometryOf(tools, scaled)
              ELSE /\ tools' = [k \in DOMAIN tools |->
                                   IF tools[k] = None THEN None ELSE Times(tools[k], factor)]
                   /\ Rematerialize(tools', scaled)
    /\ UNCHANGED <<zeros, excellon_locals, excellon_history, post_vars>>

\* affinity.scale and affinity.translate of a point of gcode_parsed; a
\* point of an arc is <<cx, cy, radius, num, den>>.
ScalePoint(p, f) ==
    IF Len(p) = 2 THEN <<Times(p[1], f), Times(p[2], f)>>
    ELSE <<Times(p[1], f), Times(p[2], f), Times(p[3], f), p[4], p[5]>>
TranslatePoint(p, v) ==
    IF Len(p) = 2 THEN <<p[1] + v[1], p[2] + v[2]>>
    ELSE <<p[1] + v[1], p[2] + v[2], p[3], p[4], p[5]>>
ScaleParsed(parsed, f) ==
    [none |-> FALSE,
     list |-> [n \in 1 .. Len(parsed.list) |->
                  [parsed.list[n] EXCEPT
                      !.geom = [i \in 1 .. Len(parsed.list[n].geom) |->
                                   ScalePoint(parsed.list[n].geom[i], f)]]]]

\* CNCjob.scale (lines 2184-2199): "for g in self.gcode_parsed" is a
\* TypeError while gcode_parsed is None.
CNCScale(factor) ==
    /\ cnc_pc = "ready"
    /\ IF gcode_parsed.none
       THEN cnc_pc' = "raised" /\ UNCHANGED gcode_parsed
       ELSE cnc_pc' = "ready" /\ gcode_parsed' = ScaleParsed(gcode_parsed, factor)
    /\ transforms' = transforms + 1
    /\ UNCHANGED <<cnc_units, z_cut, z_move, feedrate, tooldia, gcode,
                   input_geometry_bounds, cnc_locals, cnc_history, g_units, parsed_solid, created>>

\* CNCjob.offset (lines 2201-2215).
CNCOffset(vect) ==
    /\ cnc_pc = "ready"
    /\ IF gcode_parsed.none
       THEN cnc_pc' = "raised" /\ UNCHANGED gcode_parsed
       ELSE /\ cnc_pc' = "ready"
            /\ gcode_parsed' =
                  [none |-> FALSE,
                   list |-> [n \in 1 .. Len(gcode_parsed.list) |->
                                [gcode_parsed.list[n] EXCEPT
                                    !.geom = [i \in 1 .. Len(gcode_parsed.list[n].geom) |->
                                                 TranslatePoint(gcode_parsed.list[n].geom[i], vect)]]]]
    /\ transforms' = transforms + 1
    /\ UNCHANGED <<cnc_units, z_cut, z_move, feedrate, tooldia, gcode,
                   input_geometry_bounds, cnc_locals, cnc_history, g_units, parsed_solid, created>>

\* CNCjob.convert_units (lines 1735-1744).  Geometry.convert_units sets
\* self.units and calls CNCjob.scale, which raises while gcode_parsed is
\* None; then the four lengths are multiplied by the factor.
CNCConvertUnits(units) ==
    /\ cnc_pc = "ready"
    /\ \E conv \in {Conversion(cnc_units, units)} :
       \E factor \in {IF conv = <<>> THEN One ELSE conv[1]} :
           /\ cnc_units' = IF conv = <<>> THEN cnc_units ELSE units
           /\ IF conv # <<>> /\ gcode_parsed.none
              THEN /\ cnc_pc' = "raised"
                   /\ UNCHANGED <<gcode_parsed, z_cut, z_move, feedrate, tooldia>>
              ELSE /\ cnc_pc' = "ready"
                   /\ gcode_parsed' = IF conv = <<>> THEN gcode_parsed
                                      ELSE ScaleParsed(gcode_parsed, factor)
                   /\ z_cut' = Times(z_cut, factor)
                   /\ z_move' = Times(z_move, factor)
                   /\ feedrate' = Times(feedrate, factor)
                   /\ tooldia' = Times(tooldia, factor)
    /\ UNCHANGED <<gcode, input_geometry_bounds, cnc_locals, cnc_history, post_vars>>

\* ---------------------------------------------------------------- clear_poly

(***************************************************************************)
(* clear_poly (lines 2296-2319) and Geometry.clear_polygon (lines 100-112) *)
(* have the same body.  The polygon is a rectangle <<width, height>>, and  *)
(* <<0, 0>> is the empty polygon; tooldia is in the same unit and overlap  *)
(* in hundredths.                                                          *)
(***************************************************************************)
VARIABLES
    clear_pc,                  \* "idle", "looping" or "returned"
    cp_poly,                   \* the local poly
    cp_tooldia,                \* tooldia
    cp_overlap,                \* overlap
    poly_cuts                  \* the local poly_cuts

clear_vars == <<clear_pc, cp_poly, cp_tooldia, cp_overlap, poly_cuts>>

EmptyPolygon == <<0, 0>>

ClearInit ==
    /\ clear_pc = "idle"
    /\ cp_poly = EmptyPolygon
    /\ cp_tooldia = 0
    /\ cp_overlap = 0
    /\ poly_cuts = <<>>

\* p.buffer(-shrink / 2): every side moves inwards by shrink / 2.
buffer(p, shrink) ==
    IF p[1] - shrink > 0 /\ p[2] - shrink > 0
    THEN <<p[1] - shrink, p[2] - shrink>>
    ELSE EmptyPolygon
area(p) == p[1] * p[2]

\* 2 * tooldia * (1 - overlap), for the overlaps in use.
PassShrink(td, ov) == (td * (100 - ov)) \div 50

\* poly_cuts = [poly.buffer(-tooldia/2.0)] (line 2312).
ClearPolyCall(p, td, ov) ==
    /\ clear_pc = "idle"
    /\ clear_pc' = "looping"
    /\ cp_poly' = p
    /\ cp_tooldia' = td
    /\ cp_overlap' = ov
    /\ poly_cuts' = <<buffer(p, td)>>

\* One pass of "while True" (lines 2313-2318), and the return of line 2319
\* when the pass breaks.
ClearPolyPass ==
    /\ clear_pc = "looping"
    /\ cp_poly' = buffer(poly_cuts[Len(poly_cuts)], PassShrink(cp_tooldia, cp_overlap))
    /\ IF area(cp_poly') > 0
       THEN /\ poly_cuts' = Append(poly_cuts, cp_poly')
            /\ clear_pc' = "looping"
       ELSE /\ clear_pc' = "returned"
            /\ UNCHANGED poly_cuts
    /\ UNCHANGED <<cp_tooldia, cp_overlap>>

\* ------------------------------------------------------------ specifications

vars == <<gerber_vars, arc_vars, excellon_vars, number_vars, cnc_vars, post_vars, clear_vars>>

NumberIdle == number_str = <<>> /\ number_val = None
GerberOnly == UNCHANGED <<arc_vars, excellon_vars, number_vars, cnc_vars, post_vars, clear_vars>>
ExcellonOnly == UNCHANGED <<gerber_vars, arc_vars, number_vars, cnc_vars, post_vars, clear_vars>>
NumberOnly == UNCHANGED <<gerber_vars, arc_vars, excellon_vars, cnc_vars, post_vars, clear_vars>>

\* Both parsers constructed, nothing read yet.
Init ==
    GerberInit /\ ArcInit /\ ExcellonInit /\ NumberIdle /\ CNCInit /\ PostInit /\ ClearInit

\* Coordinate literals of the Gerber inputs: k units in format x.4.
Lit(k) == k * Pow10(FracDigitsInit)
LinAt(p, d) == LinLine(Lit(p[1]), Lit(p[2]), d)

\* The inputs are bounded: pending path, pending shapes, macro chunks.
Within(maxpath) ==
    /\ Len(path') <= maxpath
    /\ Len(poly_buffer') <= MaxBuf
    /\ \A n \in MacroNames : Len(aperture_macros'[n].raw) <= MaxRaw

\* --- Spec: strokes, flashes, regions and polarity on short paths.
GPoints == {<<0, 0>>, <<2, 0>>}
GLin == {LinAt(p, d) : p \in GPoints, d \in 1 .. 3}
GAD == {ADLine(<<1, 0>>, "C", <<2>>)}
GTool == {ToolLine(i) : i \in ApIds}
GOp == {OpLine(3)}
GLP == {LPLine("D"), LPLine("C")}

Next ==
    \/ \E l \in GLin : Linear(l) /\ Within(MaxPath) /\ GerberOnly
    \/ \E l \in GOp : OpcodeAlone(l) /\ Within(MaxPath) /\ GerberOnly
    \/ RegionOn /\ Within(MaxPath) /\ GerberOnly
    \/ RegionOff /\ Within(MaxPath) /\ GerberOnly
    \/ \E l \in GAD : ApertureDefinition(l) /\ GerberOnly
    \/ \E l \in GTool : ToolChange(l) /\ GerberOnly
    \/ \E l \in GLP : PolarityChange(l) /\ GerberOnly
    \/ Ignored(IgnLine) /\ GerberOnly
    \/ EndOfInput /\ GerberOnly

Spec == Init /\ [][Next]_vars

\* --- SpecMacro: aperture macro definitions, apertures that use them, flashes.
MAM == {AMLine("CIRC", <<Prim(1, 1)>>, TRUE), AMLine("CIRC", <<Prim(1, 1)>>, FALSE),
        AMLine("CIRC", <<>>, FALSE)}
MBody == {BodyLine(<<Prim(1, 1)>>, TRUE), BodyLine(<<Prim(0, 2)>>, FALSE)}
MAD == {ADLine(<<1, 0>>, "CIRC", <<2, 1>>), ADLine(<<1, 1>>, "C", <<2>>),
        ADLine(<<1, 1>>, "Q", <<2>>)}
MTool == {ToolLine(i) : i \in ApIds}
MLin == {LinAt(<<2, 2>>, 3)}
MAll == MAM \cup MBody \cup MAD \cup MTool \cup MLin \cup {IgnLine}

NextMacro ==
    \/ \E l \in MAM : MacroStart(l) /\ Within(MaxPath) /\ GerberOnly
    \/ \E l \in MAll : MacroContinue(l) /\ Within(MaxPath) /\ GerberOnly
    \/ \E l \in MLin : Linear(l) /\ Within(MaxPath) /\ GerberOnly
    \/ \E l \in MAD : ApertureDefinition(l) /\ GerberOnly
    \/ \E l \in MTool : ToolChange(l) /\ GerberOnly
    \/ \E l \in MBody \cup {IgnLine} : Ignored(l) /\ GerberOnly
    \/ EndOfInput /\ GerberOnly

SpecMacro == Init /\ [][NextMacro]_vars

\* --- SpecRegion: regions and strokes on the corners of the unit square.
RPoints == {<<0, 0>>, <<1, 0>>, <<1, 1>>, <<0, 1>>}
RLin == {LinAt(p, d) : p \in RPoints, d \in 1 .. 2}
RAD == {ADLine(<<1, 0>>, "C", <<1>>)}
RTool == {ToolLine(<<1, 0>>)}

\* The inputs draw along the sides of the unit square: two consecutive
\* points of the path are neighbouring corners.
AlongSides ==
    Len(path') >= 2 =>
        LET a == path'[Len(path') - 1]
            b == path'[Len(path')]
        IN  Abs(a[1] - b[1]) + Abs(a[2] - b[2]) = 1

NextRegion ==
    \/ \E l \in RLin : Linear(l) /\ AlongSides /\ Within(SquarePath) /\ GerberOnly
    \/ RegionOn /\ Within(SquarePath) /\ GerberOnly
    \/ RegionOff /\ Within(SquarePath) /\ GerberOnly
    \/ \E l \in RAD : ApertureDefinition(l) /\ GerberOnly
    \/ \E l \in RTool : ToolChange(l) /\ GerberOnly
    \/ Ignored(IgnLine) /\ GerberOnly
    \/ EndOfInput /\ GerberOnly

SpecRegion == Init /\ [][NextRegion]_vars

\* --- SpecPolarity: flashes and strokes under %LPD*% and %LPC*%.
PLin == {LinAt(<<2, 2>>, 3), LinAt(<<2, 2>>, 1), LinAt(<<1, 2>>, 1), LinAt(<<1, 2>>, 2)}
PAD == {ADLine(<<1, 0>>, "C", <<2>>), ADLine(<<1, 1>>, "R", <<4, 4>>)}
PTool == {ToolLine(i) : i \in ApIds}

NextPolarity ==
    \/ \E l \in PLin : Linear(l) /\ Within(MaxPath) /\ GerberOnly
    \/ \E l \in PAD : ApertureDefinition(l) /\ GerberOnly
    \/ \E l \in PTool : ToolChange(l) /\ GerberOnly
    \/ \E l \in GLP : PolarityChange(l) /\ GerberOnly
    \/ EndOfInput /\ GerberOnly

SpecPolarity == Init /\ [][NextPolarity]_vars

\* --- SpecExcellon: headers, tool definitions and selections, coordinates.
EDia == {<<<<0>>, <<0, 4>>>>, <<<<0>>, <<0, 2>>>>}
ETools == {TLine(<<1>>, <<<<0>>, <<0, 4>>>>), TLine(<<0, 1>>, <<<<0>>, <<0, 2>>>>),
           TLine(<<1>>, <<>>), TLine(<<0, 1>>, <<>>), TLine(<<2>>, <<>>)}
EUnits == {UnitsLine("INCH", "L"), UnitsLine("INCH", "T"), UnitsLine("METRIC", "")}
ENumbers == {<<0, 1, 0, 0, 0, 0>>, <<0, 2, 0, 0, 0, 0>>}
ECoords == {XYLine(TRUE, x, TRUE, <<0, 1, 0, 0, 0, 0>>) : x \in ENumbers}
               \cup {XYLine(FALSE, <<>>, TRUE, <<0, 2, 0, 0, 0, 0>>),
                     XYPLine(TRUE, <<1>>, <<5>>, FALSE, <<>>, <<>>)}
EAll == ETools \cup EUnits \cup ECoords \cup {OtherLine}

NextExcellon ==
    \/ HeaderBegin /\ ExcellonOnly
    \/ HeaderEnd /\ ExcellonOnly
    \/ \E l \in ETools : ToolSelect(l) /\ ExcellonOnly
    \/ \E l \in ECoords : Coordinates(l) /\ Len(drills') <= MaxDrills /\ ExcellonOnly
    \/ \E l \in ETools : ToolDefinition(l) /\ ExcellonOnly
    \/ \E l \in EUnits : UnitsAndFormat(l) /\ ExcellonOnly
    \/ \E l \in EAll : LineIgnored(l) /\ ExcellonOnly
    \/ EEndOfInput /\ ExcellonOnly
    \/ create_geometry /\ ExcellonOnly

SpecExcellon == Init /\ [][NextExcellon]_vars

\* --- SpecNumber: parse_number on a literal, under each zeros mode.
Digits == {0, 1, 5}
Literals == UNION {[1 .. n -> Digits] : n \in 1 .. MaxDigits}

InitNumber ==
    /\ GerberInit
    /\ ArcInit
    /\ CNCInit
    /\ PostInit
    /\ ClearInit
    /\ excellon_pc = "parsing"
    /\ tools = [k \in ToolKeys |-> None]
    /\ drills = <<>>
    /\ zeros \in {"L", "T", "None"}
    /\ e_units = "in"
    /\ e_solid_geometry = <<>>
    /\ current_tool = <<>>
    /\ in_header = FALSE
    /\ e_current_x = None
    /\ e_current_y = None
    /\ given_x = None
    /\ given_y = None
    /\ selected = NoneId
    /\ number_str \in Literals
    /\ number_val = None

NextNumber == ParseNumber /\ NumberOnly

SpecNumber == InitNumber /\ [][NextNumber]_vars

\* --- SpecDrillJob: an Excellon file is read, then a drill job is generated.
CNCOnly == UNCHANGED <<gerber_vars, arc_vars, excellon_vars, number_vars, post_vars, clear_vars>>

DTools == {TLine(<<1>>, <<<<0>>, <<0, 4>>>>), TLine(<<2>>, <<<<0>>, <<0, 2>>>>)}
DSelect == {TLine(<<1>>, <<>>), TLine(<<2>>, <<>>)}
DCoords == {XYPLine(TRUE, <<1>>, <<5>>, TRUE, <<2>>, <<0>>),
            XYPLine(TRUE, <<0>>, <<2, 5>>, FALSE, <<>>, <<>>)}
Selection(all, ids) == [all |-> all, ids |-> ids]
Selections == {Selection(TRUE, <<>>), Selection(FALSE, <<<<1>>>>),
               Selection(FALSE, <<<<2>>, <<1>>>>), Selection(FALSE, <<<<0, 1>>>>)}

NextDrillJob ==
    \/ HeaderBegin /\ ExcellonOnly
    \/ HeaderEnd /\ ExcellonOnly
    \/ \E l \in DTools : ToolDefinition(l) /\ ExcellonOnly
    \/ \E l \in DSelect : ToolSelect(l) /\ ExcellonOnly
    \/ \E l \in DCoords : Coordinates(l) /\ Len(drills') <= MaxDrills /\ ExcellonOnly
    \/ EEndOfInput /\ ExcellonOnly
    \/ \E sel \in Selections : generate_from_excellon_by_tool(sel) /\ CNCOnly

SpecDrillJob == Init /\ [][NextDrillJob]_vars

\* --- SpecJob: a job is generated from a geometry, then parsed back.
Pt(x, y) == <<x * Micro, y * Micro>>
UnitSquare == Polygon(<<Pt(0, 0), Pt(1, 0), Pt(1, 1), Pt(0, 1), Pt(0, 0)>>, <<>>)
\* A triangle with a hole; two of the coordinates have more than 4 decimals.
Holed ==
    Polygon(<<Pt(0, 0), <<3000049, 0>>, Pt(0, 3), Pt(0, 0)>>,
            <<<<Pt(1, 1), <<1000000, 1500050>>, <<1500000, 1000000>>, Pt(1, 1)>>>>)
Islands == MultiPolygon(<<UnitSquare, Polygon(<<Pt(2, 2), Pt(3, 2), Pt(2, 3), Pt(2, 2)>>, <<>>)>>)
Track == LineString(<<Pt(0, 2), Pt(2, 2)>>)
Shapes == {UnitSquare, Holed, Islands, Track, Point(Pt(1, 1))}
Geometries == UNION {[1 .. n -> Shapes] : n \in 1 .. MaxShapes}
Tooldias == {None, 16000}

NextJob ==
    \/ \E shapes \in Geometries, append \in BOOLEAN, td \in Tooldias :
           generate_from_geometry(shapes, append, td) /\ gcode_parsed.none /\ CNCOnly
    \/ GcodeParseBegin /\ CNCOnly
    \/ GcodeCommand /\ CNCOnly
    \/ GcodeParseEnd /\ CNCOnly

SpecJob == Init /\ [][NextJob]_vars

\* --- SpecGcode: gcode_parse on G-code texts that were not generated here.
Words(g, x, y, z, i, j) ==
    [NoWords EXCEPT !.G = g, !.X = x, !.Y = y, !.Z = z, !.I = i, !.J = j]
\* n.0000 as a word.
Num(n) == <<n * Pow10(4)>>
GLines ==
    {Words(<<0>>, Num(1), Num(0), <<>>, <<>>, <<>>),      \* G00 X1Y0
     Words(<<1>>, Num(1), Num(1), <<>>, <<>>, <<>>),      \* G01 X1Y1
     Words(<<>>, Num(2), <<>>, <<>>, <<>>, <<>>),         \* X2
     Words(<<1>>, <<>>, <<>>, <<-20>>, <<>>, <<>>),       \* G01 Z-0.002
     Words(<<0>>, <<>>, <<>>, <<1000>>, <<>>, <<>>),      \* G00 Z0.1
     Words(<<3>>, Num(1), Num(0), <<>>, Num(-1), Num(0)), \* G03 X1 Y0 I-1 J0
     Words(<<3>>, Num(-1), Num(0), <<>>, Num(-1), Num(0)),\* G03 X-1 Y0 I-1 J0
     Words(<<3>>, Num(0), Num(1), <<>>, <<>>, <<>>),      \* G03 X0 Y1
     GLine(21)}                                           \* G21
Texts == UNION {[1 .. n -> GLines] : n \in 1 .. MaxLines}

\* The arcs read end on an axis through their centre.
AlongAxes ==
    LET gobj == Head(gobjs)
        g == IF gobj.G # <<>> THEN gobj.G[1] ELSE current.G
        x == IF gobj.X # <<>> THEN gobj.X[1] ELSE current.X
        y == IF gobj.Y # <<>> THEN gobj.Y[1] ELSE current.Y
    IN  (gobj.X # <<>> \/ gobj.Y # <<>>) /\ g \in {2, 3} /\ gobj.I # <<>> /\ gobj.J # <<>> =>
            /\ gobj.I[1] = 0 \/ gobj.J[1] = 0
            /\ x = gobj.I[1] + current.X \/ y = gobj.J[1] + current.Y

NextGcode ==
    \/ \E gtext \in Texts : LoadGcode(gtext) /\ CNCOnly
    \/ GcodeParseBegin /\ CNCOnly
    \/ GcodeCommand /\ AlongAxes /\ CNCOnly
    \/ GcodeParseEnd /\ CNCOnly

SpecGcode == Init /\ [][NextGcode]_vars

\* --- SpecTransform: a Gerber file is read, or an Excellon file, or a job
\* is generated and parsed; then the object is scaled, moved, mirrored and
\* converted.
GerberParse ==
    /\ CNCInit
    /\ parsed_solid' = solid_geometry'
    /\ UNCHANGED <<arc_vars, excellon_vars, number_vars, cnc_vars, g_units, transforms, created,
                   clear_vars>>
TAD == {ADLine(<<1, 0>>, "C", <<2>>)}
TTool == {ToolLine(<<1, 0>>)}
TLin == {LinAt(<<2, 2>>, 3), LinAt(<<1, 2>>, 3)}
TTools == {TLine(<<1>>, <<<<0>>, <<0, 4>>>>)}
TSelect == {TLine(<<1>>, <<>>)}
TCoords == {XYPLine(TRUE, <<0>>, <<5>>, TRUE, <<1>>, <<0>>),
            XYPLine(TRUE, <<0>>, <<2, 5>>, FALSE, <<>>, <<>>)}
Factors == {Factor(2, 1)}
Axes == {"X", "Y"}
UnitNames == {"MM", "IN", "mm", "in", "cm"}
More == transforms < MaxTransforms

\* The lengths converted are whole multiples of what the factor divides by.
ExactBoxes(f) ==
    \A b \in AsBoxes(solid_geometry) : \A i \in 1 .. 4 : (b[i] * f.num) % f.den = 0
ExactDrills(f) ==
    /\ \A i \in 1 .. Len(drills) : \A j \in 1 .. 2 : (drills[i].point[j] * f.num) % f.den = 0
    /\ \A k \in DOMAIN tools : tools[k] # None => (tools[k] * f.num) % f.den = 0
GerberExact(u) ==
    IF Conversion(g_units, u) = <<>> THEN TRUE ELSE ExactBoxes(Conversion(g_units, u)[1])
ExcellonExact(u) ==
    IF Conversion(e_units, u) = <<>> THEN TRUE ELSE ExactDrills(Conversion(e_units, u)[1])

\* The three objects share nothing: a behaviour works on one of them.
OnGerber == ExcellonInit /\ CNCInit /\ UNCHANGED <<arc_vars, excellon_vars, number_vars, cnc_vars, clear_vars>>
ExcellonParse == GerberInit /\ CNCInit /\ ExcellonOnly
OnExcellon == GerberInit /\ CNCInit /\ UNCHANGED <<gerber_vars, arc_vars, number_vars, cnc_vars, clear_vars>>
JobParse == GerberInit /\ ExcellonInit /\ CNCOnly
OnJob == GerberInit /\ ExcellonInit /\ UNCHANGED <<gerber_vars, arc_vars, excellon_vars, number_vars, clear_vars>>

NextTransform ==
    \/ \E l \in TAD : ApertureDefinition(l) /\ ExcellonInit /\ GerberParse
    \/ \E l \in TTool : ToolChange(l) /\ ExcellonInit /\ GerberParse
    \/ \E l \in TLin : Linear(l) /\ Within(MaxPath) /\ ExcellonInit /\ GerberParse
    \/ EndOfInput /\ ExcellonInit /\ GerberParse
    \/ \E f \in Factors : GerberScale(f) /\ More /\ OnGerber
    \/ GerberOffset(<<BoxUnit, 0>>) /\ More /\ OnGerber
    \/ \E a \in Axes : GerberMirror(a, <<2 * BoxUnit, 2 * BoxUnit>>) /\ More /\ OnGerber
    \/ \E u \in UnitNames : GerberConvertUnits(u) /\ GerberExact(u) /\ OnGerber
    \/ GerberCreateGeometry /\ OnGerber
    \/ HeaderBegin /\ ExcellonParse
    \/ HeaderEnd /\ ExcellonParse
    \/ \E l \in TTools : ToolDefinition(l) /\ ExcellonParse
    \/ \E l \in TSelect : ToolSelect(l) /\ ExcellonParse
    \/ \E l \in TCoords : Coordinates(l) /\ Len(drills') <= MaxDrills /\ ExcellonParse
    \/ EEndOfInput /\ ExcellonParse
    \/ create_geometry /\ ExcellonParse
    \/ \E f \in Factors : ExcellonScale(f) /\ More /\ OnExcellon
    \/ ExcellonOffset(<<Micro \div 2, 0>>) /\ More /\ OnExcellon
    \/ \E a \in Axes : ExcellonMirror(a, <<0, 0>>) /\ More /\ OnExcellon
    \/ \E u \in UnitNames : ExcellonConvertUnits(u) /\ ExcellonExact(u) /\ OnExcellon
    \/ generate_from_geometry(<<UnitSquare>>, FALSE, None) /\ gcode_parsed.none /\ JobParse
    \/ GcodeParseBegin /\ gcode_parsed.none /\ JobParse
    \/ GcodeCommand /\ JobParse
    \/ GcodeParseEnd /\ JobParse
    \/ \E f \in Factors : CNCScale(f) /\ More /\ OnJob
    \/ CNCOffset(<<Micro, 0>>) /\ More /\ OnJob
    \/ \E u \in UnitNames : CNCConvertUnits(u) /\ OnJob

SpecTransform == Init /\ [][NextTransform]_vars

\* --- SpecArc: coordinate lines with and without operation codes, and
\* arcs in single and multi quadrant mode.
\* X2Y0D01*, X2Y0D02*, X2Y0D03*, and X2Y2* without an operation code.
ALin == {LinAt(<<2, 0>>, d) : d \in 1 .. 3} \cup {LinAt(<<2, 2>>, 0)}
AOp == {OpLine(d) : d \in 1 .. 3}
\* G03X0Y2I-2J0D01*, X0Y2I-2J0*, G02X0Y2D02*
ACirc == {CircLine(3, Lit(0), Lit(2), Lit(-2), Lit(0), 1),
          CircLine(0, Lit(0), Lit(2), Lit(-2), Lit(0), 0),
          CircLine(2, Lit(0), Lit(2), NoLit, NoLit, 2)}
AQuad == {QuadLine(4), QuadLine(5)}
AInterp == {InterpLine(2)}

\* The raster has no shape for a path that holds the points of an arc: the
\* inputs do not flush such a path.
PlainPath == \A n \in 1 .. Len(path) : Len(path[n]) = 2
Flushable(op) == op = 2 => PlainPath
\* The arcs drawn have their centre and their end on an axis through the
\* current point.
CircAlong(l) ==
    current_x # None /\ current_y # None =>
        /\ CircI(l) = 0 \/ CircJ(l) = 0
        /\ CircX(l) = CircCenter(l)[1] \/ CircY(l) = CircCenter(l)[2]
Carried(d) == last_code' = IF d # 0 THEN d ELSE last_code
ArcBound ==
    /\ Len(path') <= MaxArcPath
    /\ (\A n \in 1 .. Len(path') : Len(path'[n]) = 2) => Len(path') <= MaxPath
    /\ Len(poly_buffer') <= MaxBuf
GerberArcs == UNCHANGED <<excellon_vars, number_vars, cnc_vars, post_vars, clear_vars>>

NextArc ==
    \/ \E l \in GAD : ApertureDefinition(l) /\ GerberOnly
    \/ ToolChange(ToolLine(<<1, 0>>)) /\ GerberOnly
    \/ \E l \in ALin : Flushable(LinOp(l)) /\ Linear(l) /\ Carried(l.d)
                       /\ UNCHANGED arc_modes /\ ArcBound /\ GerberArcs
    \/ \E l \in AOp : OpcodeAlone(l) /\ Carried(l.d)
                      /\ UNCHANGED arc_modes /\ ArcBound /\ GerberArcs
    \/ \E l \in AQuad : QuadrantMode(l) /\ UNCHANGED last_code /\ GerberArcs
    \/ \E l \in AInterp : InterpolationMode(l) /\ UNCHANGED last_code /\ GerberArcs
    \/ \E l \in ACirc : Flushable(CircOp(l)) /\ CircAlong(l) /\ Circular(l) /\ Carried(l.d)
                        /\ ArcBound /\ GerberArcs
    \/ PlainPath /\ EndOfInput /\ GerberOnly

SpecArc == Init /\ [][NextArc]_vars

\* --- SpecApertureId: aperture ids written with and without a leading zero.
ZIds == {<<1, 0>>, <<0, 1, 0>>}
ZAD == {ADLine(i, "C", <<2>>) : i \in ZIds}
ZTool == {ToolLine(i) : i \in ZIds}

NextApertureId ==
    \/ \E l \in ZAD : ApertureDefinition(l) /\ GerberOnly
    \/ \E l \in ZTool : ToolChange(l) /\ GerberOnly
    \/ \E l \in GLin : Linear(l) /\ Within(MaxPath) /\ GerberOnly
    \/ EndOfInput /\ GerberOnly

SpecApertureId == Init /\ [][NextApertureId]_vars

\* --- SpecCompose: one macro of dark and clear circles, flashed at (2, 2).
\* $1, $2, $3 are the diameters 5, 4 and 2 of three concentric circles.
KAM == {AMLine("CIRC", <<>>, FALSE)}
KBody == {BodyLine(<<Prim(1, 1), Prim(0, 2)>>, FALSE),
          BodyLine(<<Prim(0, 2)>>, FALSE),
          BodyLine(<<Prim(1, 3)>>, TRUE)}
KAD == {ADLine(<<1, 0>>, "CIRC", <<5, 4, 2>>)}
KTool == {ToolLine(<<1, 0>>)}
KLin == {LinAt(<<2, 2>>, 3)}

NextCompose ==
    \/ \E l \in KAM : MacroStart(l) /\ Within(MaxPath) /\ GerberOnly
    \/ \E l \in KBody : MacroContinue(l) /\ Within(MaxPath) /\ GerberOnly
    \/ \E l \in KAD : ApertureDefinition(l) /\ GerberOnly
    \/ \E l \in KTool : ToolChange(l) /\ GerberOnly
    \/ \E l \in KLin : Linear(l) /\ Within(MaxPath) /\ GerberOnly
    \/ EndOfInput /\ GerberOnly

SpecCompose == Init /\ [][NextCompose]_vars

\* --- SpecHeights: the heights are set, then a new job is generated from a
\* geometry, or a job from the drills of an Excellon file.
CutHeights == {ZCutInit, -1500049}
MoveHeights == {ZMoveInit, 2 * Micro}

NextHeights ==
    \/ \E zc \in CutHeights, zm \in MoveHeights :
           JobOptions(zc, zm, FeedrateInit) /\ CNCOnly
    \/ /\ ExcellonInit
       /\ gcode = <<>>
       /\ \E shapes \in Geometries, append \in BOOLEAN, td \in Tooldias :
              generate_from_geometry(shapes, append, td) /\ CNCOnly
    \/ HeaderBegin /\ ExcellonParse
    \/ HeaderEnd /\ ExcellonParse
    \/ \E l \in DTools : ToolDefinition(l) /\ ExcellonParse
    \/ \E l \in DSelect : ToolSelect(l) /\ ExcellonParse
    \/ \E l \in DCoords : Coordinates(l) /\ Len(drills') <= MaxDrills /\ ExcellonParse
    \/ EEndOfInput /\ ExcellonParse
    \/ \E sel \in Selections : generate_from_excellon_by_tool(sel) /\ CNCOnly

SpecHeights == Init /\ [][NextHeights]_vars

\* --- SpecReparse: a job is generated, parsed, converted and parsed again.
\* The conversions stop when the feed rate has grown past MaxFeedrate.
SlowFeed == Micro \div 2
Feedrates == {FeedrateInit, SlowFeed}

NextReparse ==
    \/ \E f \in Feedrates : JobOptions(ZCutInit, ZMoveInit, f) /\ CNCOnly
    \/ \E shapes \in {<<UnitSquare>>, <<Track>>} :
           generate_from_geometry(shapes, FALSE, None) /\ gcode_parsed.none /\ CNCOnly
    \/ GcodeParseBegin /\ CNCOnly
    \/ GcodeCommand /\ CNCOnly
    \/ GcodeParseEnd /\ CNCOnly
    \/ \E u \in {"MM", "IN"} : feedrate <= MaxFeedrate /\ CNCConvertUnits(u) /\ CNCOnly

SpecReparse == Init /\ [][NextReparse]_vars

\* --- SpecClear: clear_poly on rectangles; SpecClearFair: the loop goes on
\* while it can.  The inputs keep at most MaxCuts rings.
ClearOnly ==
    UNCHANGED <<gerber_vars, arc_vars, excellon_vars, number_vars, cnc_vars, post_vars>>
ClearSides == {2, 4, 6, 8}
ClearTools == {2, 4}
Overlaps == {0, 50, 100}

NextClear ==
    \/ \E w \in ClearSides, h \in ClearSides, td \in ClearTools, ov \in Overlaps :
           ClearPolyCall(<<w, h>>, td, ov) /\ ClearOnly
    \/ ClearPolyPass /\ Len(poly_cuts') <= MaxCuts /\ ClearOnly

SpecClear == Init /\ [][NextClear]_vars
SpecClearFair == SpecClear /\ WF_vars(ClearPolyPass /\ Len(poly_cuts') <= MaxCuts /\ ClearOnly)

\* ------------------------------------------------------------------ Claims

\* A step of parse_lines that flashes, or flushes a path of at least 2
\* points as a stroke, with an aperture id that is not a key of apertures.
UnknownApertureOperation ==
    \/ \E l \in GLin : /\ Linear(l)
                       /\ LinOp(l) = 3
                       /\ ~HasAperture(current_aperture)
    \/ \E l \in GLin : /\ Linear(l)
                       /\ LinOp(l) = 2 /\ Len(path) > 1 /\ ~making_region
                       /\ ~HasAperture(last_path_aperture)
    \/ \E l \in GOp : /\ OpcodeAlone(l)
                      /\ l.d = 3 /\ path # <<>>
                      /\ ~HasAperture(current_aperture)
    \/ RegionOn /\ Len(path) > 1 /\ ~HasAperture(last_path_aperture)
    \/ \E l \in GLP : /\ PolarityChange(l)
                      /\ Len(path) > 1 /\ current_polarity # l.pol
                      /\ ~HasAperture(last_path_aperture)
    \/ EndOfInput /\ Len(path) > 1 /\ ~HasAperture(last_path_aperture)

\* C1: a flash, or a stroke flush of a path of at least 2 points (by D02,
\* G36, %LP or the end of the input), whose aperture id is not a key of the
\* apertures table is skipped: nothing is appended to poly_buffer, no error
\* is raised, and the lines that follow are still parsed.
C1_UnknownApertureSkipped ==
    [][UnknownApertureOperation =>
          /\ poly_buffer' = poly_buffer
          /\ gerber_exc' = ""
          /\ gerber_pc' # "raised"]_vars

\* C3: after an aperture macro definition that is complete on one line
\* (%AM<name>*<body>*%) the parser is no longer accumulating a macro, so the
\* line that follows is read as an ordinary Gerber line.
C3_OneLineMacroIsFinished ==
    [][\A l \in MAM : (MacroStart(l) /\ l.pct) => current_macro' = ""]_vars

\* A step that closes a region whose path has fewer than 3 points: G37, or a
\* D02 coordinate line while region mode is set.
ShortRegionClose ==
    /\ Len(path) < 3
    /\ \/ RegionOff
       \/ \E l \in GLin : Linear(l) /\ LinOp(l) = 2 /\ making_region

\* C5: closing a region whose path has fewer than 3 points, by G37 or by a
\* D02 coordinate line in region mode, is a no-op: nothing is appended to
\* poly_buffer, no error is raised and parsing goes on with the next line.
C5_ShortRegionIsNoOp ==
    [][ShortRegionClose =>
          /\ poly_buffer' = poly_buffer
          /\ gerber_exc' = ""
          /\ gerber_pc' = "parsing"]_vars

\* The cells of the shapes of a buffer.
BufferCells(buf) == UNION {buf[i].cells : i \in 1 .. Len(buf)}

\* The cells of the stroke still open in the path, when it is flushed.
OpenStrokeCells(flushed) ==
    IF flushed /\ Len(path) > 1
    THEN StrokeCells(path, apertures[last_path_aperture].size)
    ELSE {}

\* No stroke is flushed from the path, or one whose aperture is a circle of
\* the table.
OpenStrokeDrawable(flushed) ==
    (flushed /\ Len(path) > 1) => StrokeExc(last_path_aperture) = ""

Combined(solid, shapes, polarity) ==
    IF polarity = "D" THEN solid \cup shapes ELSE solid \ shapes

DarkSquare == BoxCells(<<2, 2>>, 4, 4)
ClearDisk == DiskCells(<<2, 2>>, 2)

\* C2: every shape is combined into solid_geometry under the polarity that
\* was current when it entered poly_buffer.  At each %LP line and at the end
\* of the input the union of poly_buffer (with the stroke open in the path,
\* when it is flushed) is unioned into solid_geometry if the polarity before
\* the line is dark and subtracted if it is clear; after an %LP line
\* poly_buffer is empty and only then the polarity has the new value; no
\* other line changes solid_geometry or the polarity.  So the cells of dark
\* shapes are all in the result, and a dark square followed by a clear disk
\* at its centre gives the square minus the disk.
C2_PolarityLevels ==
    [][/\ \A l \in GLP :
             (PolarityChange(l) /\ OpenStrokeDrawable(current_polarity # l.pol)) =>
                 /\ solid_geometry' =
                       Combined(solid_geometry,
                                BufferCells(poly_buffer)
                                    \cup OpenStrokeCells(current_polarity # l.pol),
                                current_polarity)
                 /\ poly_buffer' = <<>>
                 /\ current_polarity' = l.pol
       /\ (EndOfInput /\ OpenStrokeDrawable(TRUE)) =>
             /\ solid_geometry' =
                   Combined(solid_geometry,
                            BufferCells(poly_buffer) \cup OpenStrokeCells(TRUE),
                            current_polarity)
             /\ gerber_pc' = "returned"
       /\ (solid_geometry' # solid_geometry \/ current_polarity' # current_polarity) =>
             (EndOfInput \/ \E l \in GLP : PolarityChange(l))
       /\ (Len(poly_buffer') > Len(poly_buffer)) => current_polarity' = current_polarity
       /\ ((EndOfInput \/ \E l \in GLP : PolarityChange(l))
               /\ gerber_pc' # "raised" /\ current_polarity = "D") =>
             BufferCells(poly_buffer) \subseteq solid_geometry'
       /\ ((EndOfInput \/ \E l \in GLP : PolarityChange(l))
               /\ Len(path) < 2
               /\ current_polarity = "C"
               /\ solid_geometry = DarkSquare
               /\ BufferCells(poly_buffer) = ClearDisk) =>
             /\ solid_geometry' = DarkSquare \ ClearDisk
             /\ Area(solid_geometry') = Area(DarkSquare) - Area(ClearDisk)]_vars

\* The input has ended with the dark square minus the clear disk.
C2_SquareMinusDisk ==
    /\ gerber_pc = "returned"
    /\ current_polarity = "C"
    /\ BufferCells(poly_buffer) = ClearDisk
    /\ ClearDisk # {} /\ ClearDisk \subseteq DarkSquare
    /\ solid_geometry = DarkSquare \ ClearDisk
    /\ Area(solid_geometry) = Area(DarkSquare) - Area(ClearDisk)

\* The path X0Y0D02 and four D01 moves around the unit square leave.
UnitSquarePath == <<<<0, 0>>, <<1, 0>>, <<1, 1>>, <<0, 1>>, <<0, 0>>>>

\* C4: G36 sets region mode after flushing an open stroke of at least 2
\* points as a stroke buffered by its aperture (a circle of the table); in
\* region mode a D02 that flushes a path of at least 3 points appends the
\* closed polygon of the path points, not a buffered stroke; G37 always
\* clears region mode and, when the path has at least 3 points, appends
\* exactly one polygon of the path's points and resets the path to
\* [(current_x, current_y)].  The region drawn around the unit square is a
\* polygon of area 1, and it is the final solid_geometry.
C4_Regions ==
    [][/\ (RegionOn /\ OpenStrokeDrawable(TRUE)) =>
             /\ making_region'
             /\ gerber_pc' = "parsing"
             /\ poly_buffer' =
                   IF Len(path) >= 2
                   THEN Append(poly_buffer,
                               [type |-> "Stroke", cells |-> OpenStrokeCells(TRUE)])
                   ELSE poly_buffer
       /\ \A l \in RLin :
             (Linear(l) /\ LinOp(l) = 2 /\ making_region /\ Len(path) >= 3) =>
                 /\ poly_buffer' =
                       Append(poly_buffer,
                              [type |-> "Region", cells |-> PolygonCells(path)])
                 /\ gerber_pc' = "parsing"
       /\ RegionOff =>
             /\ ~making_region'
             /\ gerber_pc' = "parsing"
             /\ Len(path) >= 3 =>
                   /\ poly_buffer' =
                         Append(poly_buffer,
                                [type |-> "Region", cells |-> PolygonCells(path)])
                   /\ path' = <<<<current_x, current_y>>>>
       /\ (RegionOff /\ path = UnitSquarePath) =>
             /\ Area(poly_buffer'[Len(poly_buffer')].cells) = 1
             /\ poly_buffer'[Len(poly_buffer')].cells = {<<0, 0>>}
       /\ (EndOfInput /\ Len(path) < 2 /\ solid_geometry = {}
               /\ current_polarity = "D"
               /\ poly_buffer = <<[type |-> "Region",
                                   cells |-> PolygonCells(UnitSquarePath)]>>) =>
             /\ solid_geometry' = {<<0, 0>>}
             /\ Area(solid_geometry') = 1]_vars

\* The input has ended after a region around the unit square was closed by
\* G37: the result is the unit square.
C4_UnitSquare ==
    /\ gerber_pc = "returned"
    /\ ~making_region
    /\ path = <<<<0, 0>>>>
    /\ poly_buffer = <<[type |-> "Region", cells |-> PolygonCells(UnitSquarePath)]>>
    /\ solid_geometry = {<<0, 0>>}
    /\ Area(solid_geometry) = 1

\* C6: after parse_lines every drill carries a tool id that is a key of
\* tools (a coordinate line read while the current tool is undefined is not
\* recorded), so create_geometry does not fail on a missing tool.
C6_DrillsHaveTools ==
    /\ excellon_pc # "parsing" => \A i \in 1 .. Len(drills) : HasTool(drills[i].tool)
    /\ excellon_pc # "raised"

\* The value of a literal of the inputs: 010000 is 1.0, 020000 is 2.0 under
\* zeros = "L", and 1.5 is 1.5.
ValueL(lit) == IF lit = <<0, 1, 0, 0, 0, 0>> THEN Micro ELSE 2 * Micro

\* C7: in the body each coordinate line appends exactly one drill at the end
\* of drills, tagged with the tool of the most recent T line of the body; an
\* axis the line omits has the value of the most recent coordinate line that
\* gave it; the line is dropped only when an axis was never given; no other
\* line changes drills.  With zeros = "L", X010000Y010000 is the drill
\* (1.0, 1.0) and X020000Y010000 the drill (2.0, 1.0).
C7_DrillsInOrder ==
    [][/\ \A l \in ECoords :
             Coordinates(l) =>
                 LET x == IF l.hasx THEN CoordX(l) ELSE given_x
                     y == IF l.hasy THEN CoordY(l) ELSE given_y
                 IN  IF (~l.hasx /\ given_x = None) \/ (~l.hasy /\ given_y = None)
                     THEN drills' = drills
                     ELSE /\ Len(drills') = Len(drills) + 1
                          /\ SubSeq(drills', 1, Len(drills)) = drills
                          /\ drills'[Len(drills')].point = <<x, y>>
                          /\ selected # NoneId =>
                                drills'[Len(drills')].tool = StrOf(IntOf(selected))
       /\ \A l \in ECoords :
             (Coordinates(l) /\ l.kind = "XY" /\ l.hasx /\ l.hasy /\ zeros = "L") =>
                 drills'[Len(drills')].point = <<ValueL(l.x), ValueL(l.y)>>
       /\ drills' # drills => \E l \in ECoords : Coordinates(l)]_vars

\* INCH,LZ and T1C0.04 in the header, then T1, X010000Y010000 and
\* X020000Y010000 were read: the drills are (1.0, 1.0) and (2.0, 1.0), both
\* with tool 1.
C7_TwoDrills ==
    /\ excellon_pc = "returned"
    /\ zeros = "L" /\ e_units = "IN"
    /\ tools[<<1>>] = 40000
    /\ selected = <<1>>
    /\ drills = <<[point |-> <<Micro, Micro>>, tool |-> <<1>>],
                  [point |-> <<2 * Micro, Micro>>, tool |-> <<1>>]>>

\* C8: the tools table changes only in the header, where T<id>C<dia>
\* registers tool str(int(id)); the current tool and drills change only in
\* the body, where a T line only selects a tool.  T01 defined in the header
\* and T1 selected in the body are the same tool "1".
C8_HeaderAndBody ==
    [][/\ tools' # tools =>
             /\ in_header
             /\ \E l \in ETools :
                   /\ l.c # <<>>
                   /\ ToolDefinition(l)
                   /\ tools'[StrOf(IntOf(l.id))] = FloatOf(l.c[1], l.c[2])
                   /\ \A k \in DOMAIN tools :
                         k # StrOf(IntOf(l.id)) => tools'[k] = tools[k]
       /\ \A l \in ETools : (ToolDefinition(l) /\ l.id = <<0, 1>>) => tools'[<<1>>] # None
       /\ (current_tool' # current_tool \/ drills' # drills) => ~in_header
       /\ \A l \in ETools :
             ToolSelect(l) =>
                 /\ tools' = tools /\ drills' = drills
                 /\ current_tool' = IF l.id = <<2>> THEN <<2>> ELSE <<1>>]_vars

\* T01C0.02 was read in the header, T1 was selected in the body and a drill
\* was recorded with it: its tool is a key of tools.
C8_SameTool ==
    /\ ~in_header
    /\ tools[<<1>>] = 20000
    /\ selected = <<1>>
    /\ current_tool = <<1>>
    /\ Len(drills) = 1
    /\ HasTool(drills[1].tool)

\* C9: in every state of parse_lines zeros is "L" or "T", also after a units
\* line INCH or METRIC without ,TZ or ,LZ.
C9_ZerosIsLOrT == zeros \in {"L", "T"}

ToolTable == {k \in DOMAIN tools : tools[k] # None}
Chosen(sel) ==
    IF sel.all THEN ToolTable
    ELSE {k \in ToolTable : \E i \in 1 .. Len(sel.ids) : sel.ids[i] = k}

\* One block per drill of dr whose tool is in names, in the order of dr.
RECURSIVE BlocksOf(_, _)
BlocksOf(dr, names) ==
    IF dr = <<>> THEN <<>>
    ELSE (IF Head(dr).tool \in names
          THEN <<GXYLine(0, Head(dr).point), GZLine(1, z_cut), GZLine(1, z_move)>>
          ELSE <<>>) \o BlocksOf(Tail(dr), names)

\* C11: generate_from_excellon_by_tool leaves in gcode the prologue, then
\* exactly one block (G00 X Y, G01 Z z_cut, G01 Z z_move) for each drill
\* whose tool is selected, in the order of drills, and nothing for the other
\* drills, then the epilogue; ids that the table lacks select nothing.
C11_DrillBlocks ==
    [][\A sel \in Selections :
          generate_from_excellon_by_tool(sel) =>
              /\ Len(gcode') = 7 + Len(BlocksOf(drills, Chosen(sel))) + 2
              /\ SubSeq(gcode', 1, 7) = Prologue
              /\ SubSeq(gcode', 8, Len(gcode') - 2) = BlocksOf(drills, Chosen(sel))
              /\ SubSeq(gcode', Len(gcode') - 1, Len(gcode')) =
                     <<GXYLine(0, Origin), MLine(5)>>]_vars

\* Two drills of two tools were read and the job holds the block of one.
C11_OneOfTwoDrills ==
    /\ Len(drills) = 2
    /\ drills[1].tool # drills[2].tool
    /\ \A i \in 1 .. 2 : drills[i].tool \in ToolTable
    /\ Len(gcode) = 12
    /\ gcode[8] = GXYLine(0, drills[2].point)


\* C16 as stated: every line of the drill job that moves Z uses G01.
C16_AsStated ==
    \A i \in 1 .. Len(gcode) : gcode[i].Z # <<>> => gcode[i].G = <<1>>

\* C16: in the text of generate_from_excellon_by_tool the Z moves of the
\* drill blocks (down to z_cut, up to z_move) use G01; the one other Z move
\* is line 5 of the prologue, the rapid G00 Z<z_move> to the travel height.
C16_ZMoves ==
    \A i \in 1 .. Len(gcode) :
        gcode[i].Z # <<>> =>
            IF i = 5 THEN gcode[i] = GZLine(0, z_move)
            ELSE /\ i > 7
                 /\ gcode[i].G = <<1>>
                 /\ gcode[i].Z \in {<<Fmt4(z_cut)>>, <<Fmt4(z_move)>>}

\* A drill job with two drill blocks.
C16_TwoBlocks ==
    /\ Len(gcode) = 15
    /\ gcode[9] = GZLine(1, z_cut)
    /\ gcode[13] = GZLine(1, z_move)


\* The rings of a geometry in the order the claim gives: a polygon as its
\* exterior then its interiors, a multi-polygon as each of its polygons, a
\* line as its coordinates.
PolygonRings(polygon) == <<polygon.coords>> \o polygon.interiors
RECURSIVE RingsOf(_)
RingsOf(shapes) ==
    IF shapes = <<>> THEN <<>>
    ELSE LET geo == Head(shapes)
             rings == IF geo.type = "MultiPolygon"
                      THEN Flatten([i \in 1 .. Len(geo.polys) |-> PolygonRings(geo.polys[i])])
                      ELSE PolygonRings(geo)
         IN  rings \o RingsOf(Tail(shapes))
NoPoint(shapes) == \A i \in 1 .. Len(shapes) : shapes[i].type # "Point"

\* The text of the rings from line n on: for each ring G00 to its first
\* vertex, G01 Z<z_cut>, G01 X..Y.. per later vertex, G00 Z<z_move>.
RECURSIVE RingBlocksAt(_, _, _)
RingBlocksAt(text, n, rings) ==
    IF rings = <<>> THEN n
    ELSE LET ring == Head(rings)
             m == n + Len(ring) + 2
         IN  IF /\ m - 1 <= Len(text)
                /\ text[n] = GXYLine(0, ring[1])
                /\ text[n + 1] = GZLine(1, z_cut)
                /\ \A i \in 2 .. Len(ring) : text[n + i] = GXYLine(1, ring[i])
                /\ text[m - 1] = GZLine(0, z_move)
             THEN RingBlocksAt(text, m, Tail(rings))
             ELSE 0

\* C12: generate_from_geometry on polygons, multi-polygons and lines leaves
\* the prologue once, then one ring block per ring of each shape in order,
\* then the trailer G00 Z<z_move>, G00 X0Y0, M05; M03 comes before every
\* G01 line and no motion line follows M05.
C12_RingBlocks ==
    [][\A shapes \in {given_geometry'}, append \in BOOLEAN, td \in Tooldias :
          generate_from_geometry(shapes, append, td) /\ NoPoint(shapes) =>
              LET n == RingBlocksAt(gcode', 8, RingsOf(shapes))
              IN  /\ SubSeq(gcode', 1, 7) = Prologue
                  /\ n = Len(gcode') - 2
                  /\ SubSeq(gcode', n, Len(gcode')) =
                         <<GZLine(0, z_move), GXYLine(0, Origin), MLine(5)>>
                  /\ Cardinality({i \in 1 .. Len(gcode') : gcode'[i] = MLine(3)}) = 1
                  /\ \A i \in 1 .. Len(gcode') :
                         gcode'[i].G = <<1>> => \E j \in 1 .. i - 1 : gcode'[j] = MLine(3)
                  /\ \A i \in 1 .. Len(gcode') :
                         gcode'[i] = MLine(5) => i = Len(gcode')]_vars

\* A job was generated from the holed triangle followed by the two islands.
C12_HoledThenIslands ==
    /\ cnc_pc = "ready"
    /\ given_geometry = <<Holed, Islands>>
    /\ Len(gcode) = 7 + 6 + 6 + 7 + 6 + 3
    /\ gcode[14] = GXYLine(0, Pt(1, 1))
    /\ gcode[15] = GZLine(1, z_cut)

\* The vertices as "%.4f" prints them and float() reads them back.
Emitted(ring) == [i \in 1 .. Len(ring) |-> <<Fmt4(ring[i][1]) * 100, Fmt4(ring[i][2]) * 100>>]
CutEntries(parsed) == SelectSeq(parsed.list, LAMBDA e : e.kind[1] = "C")
Parsed == cnc_pc = "ready" /\ ~gcode_parsed.none

\* C13: after generate_from_geometry and gcode_parse the cut paths of
\* gcode_parsed, the ones between a plunge and the retract after it, are in
\* order the emitted vertex lists of the rings, vertex for vertex.
C13_RoundTrip ==
    [][GcodeParseEnd /\ given_geometry # <<>> /\ NoPoint(given_geometry) =>
          LET cuts == CutEntries(gcode_parsed')
              rings == RingsOf(given_geometry)
          IN  /\ Len(cuts) = Len(rings)
              /\ \A k \in 1 .. Len(cuts) :
                     /\ cuts[k].geom = Emitted(rings[k])
                     /\ cuts[k].kind = <<"C", "S">>]_vars

\* The unit square was generated and parsed back: one cut path of four
\* segments that ends where it starts.
C13_UnitSquareBack ==
    /\ Parsed
    /\ given_geometry = <<UnitSquare>>
    /\ Len(CutEntries(gcode_parsed)) = 1
    /\ CutEntries(gcode_parsed)[1].geom = <<Pt(0, 0), Pt(1, 0), Pt(1, 1), Pt(0, 1), Pt(0, 0)>>


\* C14: every lateral motion is in an entry of gcode_parsed whose kind is
\* the kind computed for that motion (T for Z above zero, else C; F for
\* G = 0, else S); so a G00 X..Y.. motion followed by a G01 X..Y.. motion
\* with no Z change between them is not reported as slow.
C14_KindOfEveryMotion ==
    \A n \in 1 .. Len(gcode_parsed.list) :
        \A i \in 1 .. Len(gcode_parsed.list[n].motions) :
            gcode_parsed.list[n].motions[i] = gcode_parsed.list[n].kind


\* The command G03 X1 Y0 I-1 J0 is read with the current point (1, 0).
FullCircleCommand ==
    /\ cnc_pc = "parsing"
    /\ gobjs # <<>>
    /\ Head(gobjs) = Command(Words(<<3>>, Num(1), Num(0), <<>>, Num(-1), Num(0)))
    /\ current.X = Micro
    /\ current.Y = 0
\* The command G03 X-1 Y0 I-1 J0 is read with the current point (1, 0).
HalfCircleCommand ==
    /\ cnc_pc = "parsing"
    /\ gobjs # <<>>
    /\ Head(gobjs) = Command(Words(<<3>>, Num(-1), Num(0), <<>>, Num(-1), Num(0)))
    /\ current.X = Micro
    /\ current.Y = 0
\* The points the command appended to the path.
Appended == SubSeq(g_path', Len(g_path') - (Len(path_kinds') - Len(path_kinds)) + 1, Len(g_path'))

\* C15 as stated: G03 X1 Y0 I-1 J0 at (1, 0) appends a half circle of
\* steps_per_circ / 2 + 1 points from the arc's start to its end.
C15_AsStated ==
    [][FullCircleCommand /\ GcodeCommand =>
          /\ Len(Appended) = StepsPerCirc \div 2 + 1
          /\ Appended[1] = Pt(1, 0)
          /\ Appended[Len(Appended)] = Pt(1, 0)]_vars

\* C15: with the current point (1, 0), G03 X1 Y0 I-1 J0 has its end on its
\* start and appends the whole counter-clockwise circle about (0, 0),
\* steps_per_circ + 1 points that start and end at (1, 0) and pass (0, 1),
\* (-1, 0) and (0, -1); the half circle of steps_per_circ / 2 + 1 points,
\* from (1, 0) over (0, 1) to (-1, 0), is what G03 X-1 Y0 I-1 J0 appends.
C15_FullAndHalfCircle ==
    [][/\ FullCircleCommand /\ GcodeCommand =>
              /\ Len(Appended) = StepsPerCirc + 1
              /\ Appended[1] = Pt(1, 0)
              /\ Appended[StepsPerCirc \div 4 + 1] = Pt(0, 1)
              /\ Appended[StepsPerCirc \div 2 + 1] = Pt(-1, 0)
              /\ Appended[(3 * StepsPerCirc) \div 4 + 1] = Pt(0, -1)
              /\ Appended[StepsPerCirc + 1] = Pt(1, 0)
       /\ HalfCircleCommand /\ GcodeCommand =>
              /\ Len(Appended) = StepsPerCirc \div 2 + 1
              /\ Appended[1] = Pt(1, 0)
              /\ Appended[StepsPerCirc \div 4 + 1] = Pt(0, 1)
              /\ Appended[StepsPerCirc \div 2 + 1] = Pt(-1, 0)]_vars

\* G00 X1Y0 then G03 X1 Y0 I-1 J0 were parsed: one path of the origin, the
\* point (1, 0) and the points of the circle.
C15_CircleParsed ==
    /\ cnc_pc = "ready"
    /\ Len(gcode) = 2
    /\ gcode[2] = Words(<<3>>, Num(1), Num(0), <<>>, Num(-1), Num(0))
    /\ Len(gcode_parsed.list) = 1
    /\ Len(gcode_parsed.list[1].geom) = 2 + StepsPerCirc + 1


\* A call of scale, offset, mirror or convert_units on a parsed object.
GerberTransformStep ==
    \/ \E f \in Factors : GerberScale(f)
    \/ GerberOffset(<<BoxUnit, 0>>)
    \/ \E a \in Axes : GerberMirror(a, <<2 * BoxUnit, 2 * BoxUnit>>)
    \/ \E u \in UnitNames : GerberConvertUnits(u)
ExcellonTransformStep ==
    \/ \E f \in Factors : ExcellonScale(f)
    \/ ExcellonOffset(<<Micro \div 2, 0>>)
    \/ \E a \in Axes : ExcellonMirror(a, <<0, 0>>)
    \/ \E u \in UnitNames : ExcellonConvertUnits(u)

\* C17 as stated: no transform changes apertures, aperture_macros, tools or
\* drills.
C17_AsStated ==
    [][GerberTransformStep \/ ExcellonTransformStep =>
          UNCHANGED <<apertures, aperture_macros, tools, drills>>]_vars

\* drills' is drills with every point x, y replaced: same number, order and
\* tools.
Moved(P(_, _, _, _)) ==
    /\ Len(drills') = Len(drills)
    /\ \A i \in 1 .. Len(drills) :
           /\ drills'[i].tool = drills[i].tool
           /\ P(drills[i].point[1], drills[i].point[2],
                drills'[i].point[1], drills'[i].point[2])

\* C17: scale, offset, mirror and convert_units on a parsed Gerber object
\* change solid_geometry and units only, never apertures or aperture_macros.
\* On a parsed Excellon object scale, offset and mirror leave tools alone
\* and rewrite the point of every drill, keeping their number, order and
\* tools; a convert_units that changes the units multiplies the drill points
\* by the factor, and the tool diameters too unless a drill has no tool in
\* the table; the other convert_units leave tools and drills alone.
C17_Tables ==
    [][/\ GerberTransformStep => UNCHANGED gerber_tables
       /\ \A f \in Factors :
              ExcellonScale(f) =>
                  /\ UNCHANGED tools
                  /\ Moved(LAMBDA x, y, x1, y1 : x1 * f.den = x * f.num /\ y1 * f.den = y * f.num)
       /\ ExcellonOffset(<<Micro \div 2, 0>>) =>
              /\ UNCHANGED tools
              /\ Moved(LAMBDA x, y, x1, y1 : x1 = x + Micro \div 2 /\ y1 = y)
       /\ \A a \in Axes :
              ExcellonMirror(a, <<0, 0>>) =>
                  /\ UNCHANGED tools
                  /\ Moved(LAMBDA x, y, x1, y1 :
                               IF a = "X" THEN x1 = x /\ y1 = -y ELSE x1 = -x /\ y1 = y)
       /\ \A u \in UnitNames :
              ExcellonConvertUnits(u) /\ ExcellonExact(u) =>
                  IF Upper(u) = Upper(e_units) \/ u = "cm"
                  THEN UNCHANGED <<tools, drills>>
                  ELSE /\ Moved(LAMBDA x, y, x1, y1 :
                                    IF Upper(u) = "MM"
                                    THEN x1 * 5 = x * 127 /\ y1 * 5 = y * 127
                                    ELSE x1 * 127 = x * 5 /\ y1 * 127 = y * 5)
                       /\ \A k \in DOMAIN tools :
                              IF tools[k] = None THEN tools'[k] = None
                              ELSE IF excellon_pc' = "raised" THEN tools'[k] = tools[k]
                              ELSE IF Upper(u) = "MM" THEN tools'[k] * 5 = tools[k] * 127
                              ELSE tools'[k] * 127 = tools[k] * 5]_vars

\* The drill read at (0.5, 1.0) with tool 1 has been scaled by 2: it is at
\* (1.0, 2.0), the tool table is as it was read.
C17_DrillScaled ==
    /\ excellon_pc = "geometry"
    /\ transforms = 1
    /\ e_units = "in"
    /\ Len(drills) = 1
    /\ drills[1] = [point |-> <<Micro, 2 * Micro>>, tool |-> <<1>>]
    /\ tools[<<1>>] = 40000

\* C18: Gerber.create_geometry leaves solid_geometry equal to the geometry
\* built from the parse tables, whatever scale, offset and mirror did before.
C18_CreateGeometryRederives ==
    created => AsBoxes(solid_geometry) = AsBoxes(parsed_solid)


\* The factor of a conversion to units u, and a length multiplied by it.
UnitFactor(u) == IF Upper(u) = "MM" THEN MMFactor ELSE INFactor
Converted(before, after, f) == after * f.den = before * f.num
JobLengths == <<z_cut, z_move, feedrate, tooldia>>

\* C19: convert_units(u) on an object whose units are u, in any case of the
\* letters, or with u other than IN and MM, changes no length and not the
\* units; otherwise the units become u and every length is multiplied by
\* 25.4 (to MM) or by 1 / 25.4 (to IN), so that IN after MM restores the
\* lengths: the drill coordinates and tool diameters of an Excellon object,
\* z_cut, z_move, feedrate and tooldia of a CNC job.
C19_UnitConversion ==
    [][/\ \A u \in UnitNames :
              CNCConvertUnits(u) =>
                  IF Upper(u) = Upper(cnc_units) \/ Upper(u) \notin {"IN", "MM"}
                  THEN UNCHANGED <<cnc_units, JobLengths>>
                  ELSE /\ cnc_units' = u
                       /\ \A i \in 1 .. 4 :
                              Converted(JobLengths[i], JobLengths'[i], UnitFactor(u))
       /\ \A u \in UnitNames :
              ExcellonConvertUnits(u) /\ ExcellonExact(u) =>
                  IF Upper(u) = Upper(e_units) \/ Upper(u) \notin {"IN", "MM"}
                  THEN UNCHANGED <<e_units, tools, drills>>
                  ELSE /\ e_units' = u
                       /\ Len(drills') = Len(drills)
                       /\ \A i \in 1 .. Len(drills) : \A j \in 1 .. 2 :
                              Converted(drills[i].point[j], drills'[i].point[j], UnitFactor(u))
                       /\ \A k \in DOMAIN tools :
                              IF tools[k] = None THEN tools'[k] = None
                              ELSE Converted(tools[k], tools'[k], UnitFactor(u))]_vars


\* C20: outside a macro definition, a line that matches no pattern changes
\* nothing of the parser: the coordinate format, units, apertures, macros,
\* solid_geometry and every local of parse_lines (current aperture, point,
\* operation code, polarity, region flag, path, poly_buffer) are as before,
\* and parse_lines goes on reading.
C20_IgnoredLine ==
    [][Ignored(IgnLine) =>
          /\ UNCHANGED <<gerber_self, gerber_locals, g_units, gerber_exc>>
          /\ gerber_pc' = "parsing"]_vars

\* An unmatched line can be read with an aperture selected, a path of two
\* points pending and a shape waiting in poly_buffer.
C20_MidFile ==
    /\ ENABLED Ignored(IgnLine)
    /\ HasAperture(current_aperture)
    /\ Len(path) > 1
    /\ poly_buffer # <<>>


\* C21: generate_from_geometry with append = TRUE keeps the text already in
\* self.gcode and puts the new program, which starts with its prologue,
\* after it; with append = FALSE self.gcode is the new program alone.  The
\* model's step is the same for both values of append, so a step is held
\* to what the statement asks of append = TRUE.
C21_AppendKeeps ==
    [][\A shapes \in {given_geometry'}, td \in Tooldias :
          generate_from_geometry(shapes, TRUE, td) /\ NoPoint(shapes) =>
              /\ Len(gcode') >= Len(gcode) + 7
              /\ SubSeq(gcode', 1, Len(gcode)) = gcode
              /\ SubSeq(gcode', Len(gcode) + 1, Len(gcode) + 7) = Prologue]_vars


\* C22: a lone D03* flashes the current aperture at the current point, the
\* coordinates of the most recent coordinate line, as X..Y..D03 naming that
\* point would: with an aperture that can be flashed there, the flash at
\* (current_x, current_y) is appended to poly_buffer and parse_lines reads
\* on, with the path empty as well.
C22_LoneFlashAtCurrentPoint ==
    [][/\ OpcodeAlone(OpLine(3))
       /\ current_x # None /\ current_y # None
       /\ FlashExc(<<current_x, current_y>>, current_aperture) = ""
       => /\ gerber_pc' = "parsing"
          /\ poly_buffer' =
                Append(poly_buffer, FlashGeo(<<current_x, current_y>>, current_aperture))]_vars


\* C23: after a linear coordinate line executed with operation code D02
\* the path is the line's target point alone; one shape has been appended
\* to poly_buffer if the path had two points or more before the line, and
\* poly_buffer is as it was if the path had fewer.
C23_MoveResetsPath ==
    [][\A l \in GLin :
          Linear(l) /\ LinOp(l) = 2 =>
              /\ path' = <<<<LinX(l), LinY(l)>>>>
              /\ IF Len(path) > 1
                 THEN /\ Len(poly_buffer') = Len(poly_buffer) + 1
                      /\ SubSeq(poly_buffer', 1, Len(poly_buffer)) = poly_buffer
                 ELSE poly_buffer' = poly_buffer]_vars


\* What a linear line without operation code does when no code is in
\* effect, and what it does under code d.
OnlyMovesPoint(l) ==
    /\ current_x' = LinX(l)
    /\ current_y' = LinY(l)
    /\ UNCHANGED <<path, poly_buffer>>
BareLines == {l \in ALin : l.d = 0}

\* C24 as stated: a linear line without operation code is executed with
\* the code of the last line read that carried one.
C24_AsStated ==
    [][\A l \in BareLines :
          Linear(l) =>
              IF last_code = None THEN OnlyMovesPoint(l)
              ELSE Linear([l EXCEPT !.d = last_code])]_vars

\* A circular line is skipped before its operation code is read (lines
\* 1028-1036).
SkippedWhole(l) ==
    quadrant_mode = "" \/ (l.g = 0 /\ current_interpolation_mode \notin {2, 3})

\* C24: current_operation_code is the code of the last line that carried one
\* among the linear coordinate lines, the lone operation codes and the
\* circular lines that were not skipped for a missing quadrant mode or
\* interpolation mode; a linear line without operation code is executed
\* with it, and only moves the current point when it is not set yet.
C24_CodeInEffect ==
    [][/\ \A l \in ALin :
              Linear(l) => current_operation_code' =
                               IF l.d # 0 THEN l.d ELSE current_operation_code
       /\ \A l \in AOp : OpcodeAlone(l) => current_operation_code' = l.d
       /\ \A l \in ACirc :
              Circular(l) => current_operation_code' =
                                 IF l.d # 0 /\ ~SkippedWhole(l) THEN l.d
                                 ELSE current_operation_code
       /\ \/ \E l \in GAD : ApertureDefinition(l)
          \/ ToolChange(ToolLine(<<1, 0>>))
          \/ \E l \in AQuad : QuadrantMode(l)
          \/ \E l \in AInterp : InterpolationMode(l)
          \/ EndOfInput
          => UNCHANGED current_operation_code
       /\ \A l \in BareLines :
              Linear(l) =>
                  IF current_operation_code = None THEN OnlyMovesPoint(l)
                  ELSE Linear([l EXCEPT !.d = current_operation_code])]_vars

\* X2Y2*, the only line that names (2, 2), was read after a line with D01
\* and has drawn from (2, 0) to (2, 2).
C24_DrawnWithoutCode ==
    /\ gerber_pc = "parsing"
    /\ path = <<<<2, 0>>, <<2, 2>>>>
    /\ current_operation_code = 1

\* C25 as stated: in single quadrant mode a circular line leaves path,
\* poly_buffer and the current point alone whatever its operation code.
C25_AsStated ==
    [][\A l \in ACirc :
          Circular(l) /\ quadrant_mode = "SINGLE" =>
              UNCHANGED <<path, poly_buffer, current_x, current_y>>]_vars

\* C25: in single quadrant mode a circular line executed with an operation
\* code other than D02 leaves path, poly_buffer and the current point as
\* they are and parse_lines reads on; executed with D02, and not skipped for
\* a missing interpolation mode, it is a move: unless the flush of a path
\* of two points or more raises, the path becomes the line's target point
\* alone, which is the current point.
C25_SingleQuadrant ==
    [][\A l \in ACirc :
          Circular(l) /\ quadrant_mode = "SINGLE" =>
              IF CircOp(l) # 2 \/ SkippedWhole(l)
              THEN /\ UNCHANGED <<path, poly_buffer, current_x, current_y>>
                   /\ gerber_pc' = "parsing"
              ELSE \/ /\ gerber_pc' = "raised"
                      /\ Len(path) > 1
                   \/ /\ gerber_pc' = "parsing"
                      /\ path' = <<<<CircX(l), CircY(l)>>>>
                      /\ current_x' = CircX(l)
                      /\ current_y' = CircY(l)]_vars

\* G03X0Y2I-2J0D01*, the only line that sets interpolation mode 3, was read
\* in single quadrant mode with the path at (2, 0): the path is as it was.
C25_ArcSkipped ==
    /\ gerber_pc = "parsing"
    /\ quadrant_mode = "SINGLE"
    /\ current_interpolation_mode = 3
    /\ current_operation_code = 1
    /\ path = <<<<2, 0>>>>
    /\ current_x = 2 /\ current_y = 0


\* C26: a flash after a tool change D<id'>* uses the aperture defined by
\* %ADD<id>...*% whenever id' and id denote the same integer, with or
\* without leading zeros: the flash of that aperture is appended to
\* poly_buffer and no error is raised.
C26_ApertureFoundByNumber ==
    [][\A l \in GLin :
          /\ Linear(l) /\ LinOp(l) = 3
          /\ current_aperture # NoneId
          /\ HasAperture(ApertureKey(current_aperture))
          => /\ gerber_pc' = "parsing"
             /\ poly_buffer' =
                   Append(poly_buffer,
                          FlashGeo(<<LinX(l), LinY(l)>>, ApertureKey(current_aperture)))]_vars


\* The primitives of a macro from its first dark one on.
RECURSIVE FromFirstDark(_)
FromFirstDark(prims) ==
    IF prims = <<>> THEN <<>>
    ELSE IF Head(prims).pol = 1 THEN prims
    ELSE FromFirstDark(Tail(prims))

\* Left to right over circles at loc: a dark one is unioned, a clear one
\* subtracted.
RECURSIVE LeftToRight(_, _, _, _)
LeftToRight(prims, modifiers, loc, cells) ==
    IF prims = <<>> THEN cells
    ELSE LET g == DiskCells(loc, ModValue(modifiers, Head(prims).var))
         IN  LeftToRight(Tail(prims), modifiers, loc,
                         IF Head(prims).pol = 1 THEN cells \cup g ELSE cells \ g)

\* The primitives of the macro of the selected aperture.
FlashedPrims == parse_content(apertures[current_aperture].macro.raw, FALSE)
FlashesMacro(l) ==
    /\ Linear(l) /\ LinOp(l) = 3
    /\ HasAperture(current_aperture)
    /\ apertures[current_aperture].type = "AM"

\* C27: a flash of a macro aperture whose macro has a dark primitive adds
\* the left-to-right composition of the primitives from the first dark one
\* on, and does not fail: what comes before the first dark primitive
\* contributes nothing.
C27_LeftToRight ==
    [][\A l \in KLin :
          FlashesMacro(l) /\ FromFirstDark(FlashedPrims) # <<>>
          => /\ gerber_pc' = "parsing"
             /\ poly_buffer' =
                   Append(poly_buffer,
                          Geo("Polygon",
                              LeftToRight(FromFirstDark(FlashedPrims),
                                          apertures[current_aperture].modifiers,
                                          <<LinX(l), LinY(l)>>, {})))]_vars

\* The same for a macro that starts with a dark primitive.
C27_DarkFirst ==
    [][\A l \in KLin :
          FlashesMacro(l) /\ FlashedPrims # <<>> /\ FlashedPrims[1].pol = 1
          => /\ gerber_pc' = "parsing"
             /\ poly_buffer' =
                   Append(poly_buffer,
                          Geo("Polygon",
                              LeftToRight(FlashedPrims,
                                          apertures[current_aperture].modifiers,
                                          <<LinX(l), LinY(l)>>, {})))]_vars

\* Dark A, clear B, dark C was flashed: the ring of A outside B, and C.
C27_DarkClearDark ==
    /\ gerber_pc = "parsing"
    /\ HasAperture(<<1, 0>>)
    /\ parse_content(apertures[<<1, 0>>].macro.raw, FALSE)
          = <<Prim(1, 1), Prim(0, 2), Prim(1, 3)>>
    /\ poly_buffer =
          <<Geo("Polygon", (DiskCells(<<2, 2>>, 5) \ DiskCells(<<2, 2>>, 4))
                              \cup DiskCells(<<2, 2>>, 2))>>
    /\ Area(poly_buffer[1].cells) = 8


\* Z tracked through a G-code text from the value z before it: every G00
\* with X or Y is at the height zm, every G01 with X or Y at the height zc,
\* both as "%.4f" writes them.
RECURSIVE LateralAtHeights(_, _, _, _)
LateralAtHeights(lines, z, zc, zm) ==
    IF lines = <<>> THEN TRUE
    ELSE LET l == Head(lines)
             znow == IF l.Z # <<>> THEN l.Z ELSE z
             lateral == l.X # <<>> \/ l.Y # <<>>
         IN  /\ lateral /\ l.G = <<0>> => znow = <<Fmt4(zm)>>
             /\ lateral /\ l.G = <<1>> => znow = <<Fmt4(zc)>>
             /\ LateralAtHeights(Tail(lines), znow, zc, zm)

\* A step of one of the generators; generate_from_geometry records its
\* argument in given_geometry.
Generates ==
    \/ \E sel \in Selections : generate_from_excellon_by_tool(sel)
    \/ \E shapes \in {given_geometry'} \cap Geometries, append \in BOOLEAN, td \in Tooldias :
           generate_from_geometry(shapes, append, td)

\* C28: in the text a generator writes, Z followed from the first line is
\* z_move at every G00 with X or Y and z_cut at every G01 with X or Y.
C28_LateralAtHeights ==
    [][Generates => LateralAtHeights(gcode', <<>>, z_cut, z_move)]_vars

\* A job of the triangle with a hole, at heights that are not the defaults:
\* rapid and feed lateral moves are in the text.
C28_HoledJob ==
    /\ cnc_pc = "ready"
    /\ given_geometry = <<Holed>>
    /\ z_cut = -1500049 /\ z_move = 2 * Micro
    /\ \E i \in 1 .. Len(gcode) : gcode[i].G = <<1>> /\ gcode[i].X # <<>>
    /\ Cardinality({i \in 1 .. Len(gcode) : gcode[i].G = <<0>> /\ gcode[i].X # <<>>}) = 3
    /\ gcode[Len(gcode)] = MLine(5)

\* A drill job of two holes at heights that are not the defaults.
C28_DrillJob ==
    /\ cnc_pc = "ready"
    /\ z_cut = -1500049 /\ z_move = 2 * Micro
    /\ Cardinality({i \in 1 .. Len(gcode) : gcode[i] = GZLine(1, z_cut)}) = 2
    /\ Cardinality({i \in 1 .. Len(gcode) : gcode[i].G = <<0>> /\ gcode[i].X # <<>>}) = 3
    /\ given_geometry = <<>>


\* A step of gcode_parse.
GcodeParseStep == GcodeParseBegin \/ GcodeCommand \/ GcodeParseEnd

\* C29: gcode_parse leaves the units (whatever the case of the letters),
\* z_cut, z_move, feedrate, tooldia and gcode as they are: after a
\* conversion to MM the units are still MM when gcode_parse has run.
C29_ParseKeepsUnits ==
    [][GcodeParseStep =>
          /\ Upper(cnc_units') = Upper(cnc_units)
          /\ UNCHANGED <<z_cut, z_move, feedrate, tooldia, gcode>>]_vars

\* A job generated in inches with the slow feed rate whose lengths two
\* conversions to MM have multiplied by 25.4 twice.
C29_ScaledTwice ==
    /\ cnc_pc = "ready"
    /\ cnc_units = "MM"
    /\ gcode # <<>> /\ gcode[1] = GLine(20)
    /\ feedrate = Times(Times(SlowFeed, MMFactor), MMFactor)
    /\ z_move = Times(Times(ZMoveInit, MMFactor), MMFactor)


\* Ring a lies inside ring b.
Inside(a, b) == a[1] <= b[1] /\ a[2] <= b[2]
RingsNested ==
    /\ \A i \in 1 .. Len(poly_cuts) : area(poly_cuts[i]) > 0
    /\ \A i \in 2 .. Len(poly_cuts) : Inside(poly_cuts[i], poly_cuts[i - 1])

\* C30: every call of clear_poly returns, and the list it returns holds
\* rings of positive area, each inside the one before it.
C30_ClearPoly ==
    /\ [](clear_pc = "returned" => RingsNested)
    /\ (clear_pc = "looping" ~> clear_pc = "returned")

\* The two halves for the calls with overlap below 1 and a first ring that
\* is not empty.
C30_WithProgress ==
    /\ [](clear_pc = "returned" /\ area(poly_cuts[1]) > 0 /\ cp_overlap < 100
             => RingsNested)
    /\ (clear_pc = "looping" /\ cp_overlap < 100 ~> clear_pc = "returned")

\* The list that is returned never fills the room the inputs have.
C30_RoomLeft == clear_pc = "returned" /\ cp_overlap < 100 => Len(poly_cuts) < MaxCuts

\* The call on the 8 x 8 square with tooldia 2 and overlap 0.5 returned
\* the squares of sides 6, 4 and 2.
C30_ThreeRings ==
    clear_pc = "returned" /\ poly_cuts = <<<<6, 6>>, <<4, 4>>, <<2, 2>>>>

\* A call returned a first ring that is empty.
C30_EmptyFirstRing == clear_pc = "returned" /\ poly_cuts = <<EmptyPolygon>>

\* Overlap 1: the passes filled the list with copies of the first ring.
C30_SameRingAgain ==
    /\ clear_pc = "looping" /\ cp_overlap = 100
    /\ Len(poly_cuts) = MaxCuts
    /\ \A i \in 2 .. Len(poly_cuts) : poly_cuts[i] = poly_cuts[1]

=============================================================================
